---- MODULE Spec2Model ----
(***************************************************************************)
(* Model of the casino bot's ledger core (database/crud.py,                *)
(* database/database.py), its per-user lock registry (utils/helpers.py)    *)
(* and the duel and group-pot game handlers (cogs/duel.py,                 *)
(* cogs/group_pot.py).                                                     *)
(*                                                                         *)
(* The relational store is modelled as the committed tables `users`,       *)
(* `transactions`, `games` and `participants`.  Every `async with          *)
(* get_session()` block is a unit of work with its own SQLAlchemy session: *)
(* an identity map of the rows it has loaded (the session factory is built *)
(* with expire_on_commit=False, so a row loaded once is never re-read),    *)
(* the columns it has written and the rows it has added.  Writes reach the *)
(* committed tables when the session commits and are dropped when it rolls *)
(* back.  Tasks are asyncio coroutines: one action is the code between two *)
(* suspension points.                                                      *)
(***************************************************************************)
EXTENDS Integers, Sequences, FiniteSets, TLC

VARIABLES
    users,          \* committed table users: account id -> row
    transactions,   \* committed table transactions: sequence of rows
    games,          \* committed table game_sessions: game id -> row
    participants,   \* committed table duel_participants: game id -> rows in join order
    sess,           \* task -> SQLAlchemy session of its current unit of work
    pc,             \* task -> position of the coroutine
    locals,         \* task -> local variables of the coroutine
    lockHolder,     \* lock key -> task holding the asyncio.Lock, or NoTask
    lockWaiters,    \* lock key -> FIFO queue of tasks waiting in acquire()
    opCount,        \* number of handler invocations started so far
    clock           \* the system clock: UTC time and the zone's UTC offset

vars == <<users, transactions, games, participants, sess, pc, locals,
          lockHolder, lockWaiters, opCount, clock>>

----------------------------------------------------------------------------
(* Program constants *)

STARTING_BALANCE == 50000

(* Bounds of the model *)

NumAccounts == 3
MaxLedgerOps == 4

Accounts == 1..NumAccounts
NoTask == "none"
NoGame == "none"

\* The clock of a run in which no handler reads the time.
Epoch == [utc |-> 0, offset |-> 0]

----------------------------------------------------------------------------
(* Rows and sessions *)

UserRow(b, e, l) == [balance |-> b, lifetime_earned |-> e, lifetime_lost |-> l]

TxRow(u, a, r, g) == [user_id |-> u, amount |-> a, reason |-> r, ref_game_id |-> g]

UserCols == {"balance", "lifetime_earned", "lifetime_lost"}

\* A fresh session: nothing loaded, nothing written, nothing added.
EmptySession ==
    [cache   |-> << >>,                        \* identity map: account -> row
     written |-> [u \in Accounts |-> {}],      \* columns flushed since the last commit
     created |-> {},                           \* accounts INSERTed since the last commit
     tx      |-> << >>,                        \* transaction rows added since the last commit
     gcache  |-> << >>,                        \* identity map: game id -> row
     gwritten |-> {}]                          \* games whose status was flushed

\* A datetime is its wall-clock reading (minutes since midnight of day 0) and
\* its tzinfo; a naive datetime has tzinfo "naive". None is no datetime.
None == [wall |-> 0, tz |-> "None"]
DateTime(w, tz) == [wall |-> w, tz |-> tz]

\* The DateTime columns of the users table are declared without a time zone:
\* the value bound to the column keeps the wall-clock reading and loses tzinfo.
DateTimeCols == {"last_daily", "last_hourly"}
BindColumn(c, v) ==
    IF c \in DateTimeCols /\ v # None THEN DateTime(v.wall, "naive") ELSE v

\* The row as the database stores it.
BindRow(row) == [c \in DOMAIN row |-> BindColumn(c, row[c])]

RECURSIVE SumAmounts(_)
SumAmounts(s) == IF s = << >> THEN 0 ELSE Head(s).amount + SumAmounts(Tail(s))

TxOf(log, u) == SelectSeq(log, LAMBDA r : r.user_id = u)

TxOfGame(log, g) == SelectSeq(log, LAMBDA r : r.ref_game_id = g)

Abs(x) == IF x < 0 THEN -x ELSE x

----------------------------------------------------------------------------
(* crud.py, as functions from a session to the session after the call *)

\* Does the session see account u (a committed row or one it has created)?
UserExists(s, u) == u \in DOMAIN users \/ u \in DOMAIN s.cache

\* get_user_by_id / get_user_by_discord_id: the identity map wins over the
\* committed row, so a row loaded earlier in the session is returned as loaded.
get_user_by_id(s, u) == IF u \in DOMAIN s.cache THEN s.cache[u] ELSE users[u]

\* The session after loading u.
Loaded(s, u) ==
    IF u \in DOMAIN s.cache THEN s ELSE [s EXCEPT !.cache = (u :> users[u]) @@ @]

ChangedCols(old, new) == {c \in DOMAIN old : old[c] # new[c]}

create_user(s, u, starting_balance) ==
    [s EXCEPT !.cache   = (u :> UserRow(starting_balance, starting_balance, 0)) @@ @,
              !.created = @ \cup {u},
              !.tx      = Append(@, TxRow(u, starting_balance, "initial_grant", NoGame))]

update_user_balance_ignores_losses(s, u, amount, reason, g) ==
    LET old == get_user_by_id(s, u)
        new == [old EXCEPT
                  !.balance = old.balance + amount,
                  !.lifetime_earned = IF amount > 0 THEN old.lifetime_earned + amount
                                                    ELSE old.lifetime_earned]
    IN  [s EXCEPT !.cache   = (u :> new) @@ @,
                  !.written = [@ EXCEPT ![u] = @ \cup ChangedCols(old, new)],
                  !.tx      = Append(@, TxRow(u, amount, reason, g))]

update_user_balance(s, u, amount, reason, g) ==
    LET old == get_user_by_id(s, u)
        new == [old EXCEPT
                  !.balance = old.balance + amount,
                  !.lifetime_earned = IF amount > 0 THEN old.lifetime_earned + amount
                                                    ELSE old.lifetime_earned,
                  !.lifetime_lost = IF amount > 0 THEN old.lifetime_lost
                                                  ELSE old.lifetime_lost + Abs(amount)]
    IN  [s EXCEPT !.cache   = (u :> new) @@ @,
                  !.written = [@ EXCEPT ![u] = @ \cup ChangedCols(old, new)],
                  !.tx      = Append(@, TxRow(u, amount, reason, g))]

reset_user_balance_logs_new_balance(s, u, new_balance) ==
    LET old == get_user_by_id(s, u)
        new == [old EXCEPT !.balance = new_balance]
    IN  [s EXCEPT !.cache   = (u :> new) @@ @,
                  !.written = [@ EXCEPT ![u] = @ \cup ChangedCols(old, new)],
                  !.tx      = Append(@, TxRow(u, new_balance, "admin_adjustment", NoGame))]

reset_user_balance(s, u, new_balance) ==
    LET old == get_user_by_id(s, u)
        adjustment == new_balance - old.balance
        new == [old EXCEPT !.balance = new_balance]
    IN  [s EXCEPT !.cache   = (u :> new) @@ @,
                  !.written = [@ EXCEPT ![u] = @ \cup ChangedCols(old, new)],
                  !.tx      = Append(@, TxRow(u, adjustment, "admin_adjustment", NoGame))]

\* update_game_status: the status is set whatever the current status is.
update_game_status(s, g, status) ==
    [s EXCEPT !.gcache = (g :> [status |-> status]) @@ @, !.gwritten = @ \cup {g}]

----------------------------------------------------------------------------
(* database.py: commit and rollback of a session *)

\* The committed users table after the session's flushed writes are committed:
\* created rows are inserted, written columns take the session's values.
CommittedUsers(s) ==
    [u \in DOMAIN users \cup s.created |->
        IF u \in s.created THEN BindRow(s.cache[u])
        ELSE [c \in DOMAIN users[u] |->
                IF c \in s.written[u] THEN BindColumn(c, s.cache[u][c])
                ELSE users[u][c]]]

CommittedGames(s) ==
    [g \in DOMAIN games |->
        IF g \in s.gwritten THEN [games[g] EXCEPT !.status = s.gcache[g].status]
        ELSE games[g]]

\* The session after session.commit(): loaded rows stay in the identity map
\* (expire_on_commit=False), nothing is pending any more.
AfterCommit(s) ==
    [s EXCEPT !.written = [u \in Accounts |-> {}], !.created = {}, !.tx = << >>,
              !.gwritten = {}]

\* The committed tables <<users, transactions, games>> a session leaves behind
\* when get_session() exits: commit on a normal exit, rollback on an exception.
get_session_exit_always_commits(s, raised) ==
    <<CommittedUsers(s), transactions \o s.tx, CommittedGames(s)>>

get_session_exit(s, raised) ==
    IF raised THEN <<users, transactions, games>>
    ELSE <<CommittedUsers(s), transactions \o s.tx, CommittedGames(s)>>

----------------------------------------------------------------------------
(* Specification SpecLedger: units of work on the ledger, one after another *)

LedgerTask == "ledger"
LedgerAmounts == {-2, 0, 1}
ResetBalances == {0, STARTING_BALANCE}
LedgerGame == "g1"

LedgerInit ==
    /\ users = << >>
    /\ transactions = << >>
    /\ games = << >>
    /\ participants = << >>
    /\ sess = (LedgerTask :> EmptySession)
    /\ pc = (LedgerTask :> "idle")
    /\ locals = (LedgerTask :> [winner |-> 0, loser |-> 0, amount |-> 0,
                                  creditFirst |-> FALSE])
    /\ lockHolder = << >>
    /\ lockWaiters = << >>
    /\ opCount = 0
    /\ clock = Epoch

LedgerFrame == UNCHANGED <<games, participants, lockHolder, lockWaiters, clock>>

\* async with get_session() as session:
LedgerBegin ==
    /\ pc[LedgerTask] = "idle"
    /\ opCount < MaxLedgerOps
    /\ sess' = [sess EXCEPT ![LedgerTask] = EmptySession]
    /\ pc' = [pc EXCEPT ![LedgerTask] = "open"]
    /\ UNCHANGED <<users, transactions, locals, opCount, clock>>
    /\ LedgerFrame

LedgerCreateUser ==
    /\ pc[LedgerTask] = "open"
    /\ opCount < MaxLedgerOps
    /\ \E u \in Accounts :
        /\ ~UserExists(sess[LedgerTask], u)
        /\ sess' = [sess EXCEPT ![LedgerTask] = create_user(@, u, STARTING_BALANCE)]
    /\ opCount' = opCount + 1
    /\ UNCHANGED <<users, transactions, pc, locals>>
    /\ LedgerFrame

LedgerUpdateBalance ==
    /\ pc[LedgerTask] = "open"
    /\ opCount < MaxLedgerOps
    /\ \E u \in Accounts, a \in LedgerAmounts :
        /\ UserExists(sess[LedgerTask], u)
        /\ sess' = [sess EXCEPT ![LedgerTask] =
                        update_user_balance(@, u, a, "admin_adjustment", NoGame)]
    /\ opCount' = opCount + 1
    /\ UNCHANGED <<users, transactions, pc, locals>>
    /\ LedgerFrame

\* update_user_balance / reset_user_balance on an unknown id raise ValueError.
LedgerUserNotFound ==
    /\ pc[LedgerTask] = "open"
    /\ \E u \in Accounts : ~UserExists(sess[LedgerTask], u)
    /\ pc' = [pc EXCEPT ![LedgerTask] = "raised"]
    /\ UNCHANGED <<users, transactions, sess, locals, opCount, clock>>
    /\ LedgerFrame

LedgerResetBalance ==
    /\ pc[LedgerTask] = "open"
    /\ opCount < MaxLedgerOps
    /\ \E u \in Accounts, nb \in ResetBalances :
        /\ UserExists(sess[LedgerTask], u)
        /\ sess' = [sess EXCEPT ![LedgerTask] = reset_user_balance(@, u, nb)]
    /\ opCount' = opCount + 1
    /\ UNCHANGED <<users, transactions, pc, locals>>
    /\ LedgerFrame

\* First half of a two-account settlement (Duel._finalize_duel credits the
\* winner first, GroupPot._run_group_pot_game debits the loser first).
LedgerSettleFirst ==
    /\ pc[LedgerTask] = "open"
    /\ opCount < MaxLedgerOps
    /\ TxOfGame(transactions \o sess[LedgerTask].tx, LedgerGame) = << >>
    /\ \E w \in Accounts, l \in Accounts, a \in {1, 2}, creditFirst \in BOOLEAN :
        /\ w # l
        /\ UserExists(sess[LedgerTask], w)
        /\ UserExists(sess[LedgerTask], l)
        /\ locals' = [locals EXCEPT ![LedgerTask] =
                        [winner |-> w, loser |-> l, amount |-> a,
                         creditFirst |-> creditFirst]]
        /\ sess' = [sess EXCEPT ![LedgerTask] =
                        IF creditFirst
                        THEN update_user_balance(@, w, a, "duel_win", LedgerGame)
                        ELSE update_user_balance(@, l, -a, "group_pot_loss", LedgerGame)]
    /\ pc' = [pc EXCEPT ![LedgerTask] = "settling"]
    /\ opCount' = opCount + 1
    /\ UNCHANGED <<users, transactions>>
    /\ LedgerFrame

LedgerSettleSecond ==
    /\ pc[LedgerTask] = "settling"
    /\ LET v == locals[LedgerTask] IN
        sess' = [sess EXCEPT ![LedgerTask] =
                    IF v.creditFirst
                    THEN update_user_balance(@, v.loser, -v.amount, "duel_loss", LedgerGame)
                    ELSE update_user_balance(@, v.winner, v.amount, "group_pot_win", LedgerGame)]
    /\ pc' = [pc EXCEPT ![LedgerTask] = "open"]
    /\ UNCHANGED <<users, transactions, locals, opCount, clock>>
    /\ LedgerFrame

\* Any statement inside the unit of work raises (a failed flush, a Discord
\* error while sending a message, ...).
LedgerRaise ==
    /\ pc[LedgerTask] \in {"open", "settling"}
    /\ sess[LedgerTask].tx # << >>
    /\ pc' = [pc EXCEPT ![LedgerTask] = "raised"]
    /\ UNCHANGED <<users, transactions, sess, locals, opCount, clock>>
    /\ LedgerFrame

\* Leaving the get_session() block: commit, or rollback after an exception.
LedgerExit ==
    /\ pc[LedgerTask] \in {"open", "raised"}
    /\ LET after == get_session_exit(sess[LedgerTask], pc[LedgerTask] = "raised") IN
        /\ users' = after[1]
        /\ transactions' = after[2]
    /\ sess' = [sess EXCEPT ![LedgerTask] = EmptySession]
    /\ pc' = [pc EXCEPT ![LedgerTask] = "idle"]
    /\ UNCHANGED <<locals, opCount, clock>>
    /\ LedgerFrame

LedgerNext ==
    \/ LedgerBegin
    \/ LedgerCreateUser
    \/ LedgerUpdateBalance
    \/ LedgerUserNotFound
    \/ LedgerResetBalance
    \/ LedgerSettleFirst
    \/ LedgerSettleSecond
    \/ LedgerRaise
    \/ LedgerExit

SpecLedger == LedgerInit /\ [][LedgerNext]_vars

----------------------------------------------------------------------------
(* Properties of the ledger under SpecLedger *)

\* The rows a session sees: the committed ones, overlaid with its own.
VisibleAccounts(s) == DOMAIN users \cup DOMAIN s.cache

\* C1: after any sequence of create_user, update_user_balance and
\* reset_user_balance calls, every account's balance (as the running unit of
\* work sees it, and as committed) equals the sum of the amounts of the
\* account's Transaction rows, the initial grant included.
C1_BalanceIsSumOfTransactions ==
    /\ \A u \in VisibleAccounts(sess[LedgerTask]) :
          get_user_by_id(sess[LedgerTask], u).balance
            = SumAmounts(TxOf(transactions \o sess[LedgerTask].tx, u))
    /\ pc[LedgerTask] = "idle" =>
          \A u \in DOMAIN users :
              users[u].balance = SumAmounts(TxOf(transactions, u))

\* An account that was created, then credited or debited, then reset to 0.
C1_Witness ==
    \E u \in DOMAIN users :
        /\ users[u].balance = 0
        /\ Len(TxOf(transactions, u)) >= 3
        /\ \E i \in 1..Len(transactions) :
              transactions[i].user_id = u /\ transactions[i].amount \in {-2, 1}

\* The committed tables hold a balance change exactly when they hold its
\* Transaction row, and hold both rows of a two-account settlement or neither.
CommittedTogether ==
    /\ \A u \in DOMAIN users :
          users[u].balance = SumAmounts(TxOf(transactions, u))
    /\ \A i \in 1..Len(transactions) : transactions[i].user_id \in DOMAIN users
    /\ Len(TxOfGame(transactions, LedgerGame)) \in {0, 2}
    /\ SumAmounts(TxOfGame(transactions, LedgerGame)) = 0

\* Leaving a unit of work that raised changes no committed table.
RollbackDiscards ==
    (pc[LedgerTask] = "raised" /\ pc'[LedgerTask] = "idle")
        => (users' = users /\ transactions' = transactions)

\* C4: a balance change and its Transaction row persist together or not at
\* all: a unit of work that raises after update_user_balance has run leaves
\* the committed balances and transactions as they were, and a two-account
\* settlement is never committed half-applied.
C4_LedgerAtomic == [](CommittedTogether) /\ [][RollbackDiscards]_vars

\* A unit of work has raised between the two halves of a settlement.
C4_Witness ==
    /\ pc[LedgerTask] = "raised"
    /\ Len(TxOfGame(sess[LedgerTask].tx, LedgerGame)) = 1

----------------------------------------------------------------------------
(* utils/helpers.py: the registry of per-user asyncio locks *)

\* Discord ids are snowflakes, far above the autoincrement ids of table users:
\* get_user_lock(discord id) and get_user_lock(row id) are different locks.
DiscordId(u) == 1000 + u

LockKeys == Accounts \cup {DiscordId(u) : u \in Accounts}

Unlocked == [k \in LockKeys |-> NoTask]
NoWaiters == [k \in LockKeys |-> << >>]

\* asyncio.Lock.acquire as `async with get_user_lock(k)` runs it: a free lock
\* nobody waits for is taken without suspending, otherwise the task queues.
\* The pair <<lockHolder, lockWaiters>> after task t asks for lock k.
AcquireLock(holder, waiters, t, k) ==
    IF holder[k] = NoTask /\ waiters[k] = << >>
    THEN <<[holder EXCEPT ![k] = t], waiters>>
    ELSE <<holder, [waiters EXCEPT ![k] = Append(@, t)]>>

\* asyncio.Lock.release: the lock goes to the first waiter, in FIFO order.
ReleaseLock(holder, waiters, k) ==
    IF waiters[k] = << >>
    THEN <<[holder EXCEPT ![k] = NoTask], waiters>>
    ELSE <<[holder EXCEPT ![k] = Head(waiters[k])], [waiters EXCEPT ![k] = Tail(@)]>>

HoldsLock(t, k) == lockHolder[k] = t

----------------------------------------------------------------------------
(* Specification SpecConc: concurrent +1 credits to one account, two through *)
(* Admin.admin_add_coins and one through Duel._finalize_duel (a duel with a  *)
(* wager of 1 that the account has won)                                      *)

AdminTasks == {"admin1", "admin2"}
DuelTasks == {"duel"}
ConcTasks == AdminTasks \cup DuelTasks
Credited == 1      \* the account all tasks credit, the winner of the duel
DuelLoser == 2     \* the loser of the duel
ConcGame == "g1"

ConcInit ==
    /\ users = [u \in Accounts |-> UserRow(STARTING_BALANCE, STARTING_BALANCE, 0)]
    /\ transactions = << >>
    /\ games = (ConcGame :> [status |-> "active"])
    /\ participants = (ConcGame :> <<[user_id |-> Credited, is_winner |-> "null"],
                                     [user_id |-> DuelLoser, is_winner |-> "null"]>>)
    /\ sess = [t \in ConcTasks |-> EmptySession]
    /\ pc = [t \in ConcTasks |-> IF t \in DuelTasks THEN "finalize" ELSE "start"]
    /\ locals = [t \in ConcTasks |->
                  [amount |-> 1, game |-> ConcGame, winner |-> Credited, loser |-> DuelLoser]]
    /\ lockHolder = Unlocked
    /\ lockWaiters = NoWaiters
    /\ opCount = 0
    /\ clock = Epoch

\* admin_add_coins: async with get_user_lock(user.id)
AdminAcquire(t) ==
    /\ pc[t] = "start"
    /\ LET after == AcquireLock(lockHolder, lockWaiters, t, DiscordId(Credited)) IN
        /\ lockHolder' = after[1]
        /\ lockWaiters' = after[2]
    /\ pc' = [pc EXCEPT ![t] = "acquire"]
    /\ UNCHANGED <<users, transactions, games, participants, sess, locals, opCount, clock>>

\* admin_add_coins: get_session(), get_user_by_discord_id
AdminRead(t) ==
    /\ pc[t] = "acquire"
    /\ HoldsLock(t, DiscordId(Credited))
    /\ sess' = [sess EXCEPT ![t] = Loaded(EmptySession, Credited)]
    /\ pc' = [pc EXCEPT ![t] = "update"]
    /\ UNCHANGED <<users, transactions, games, participants, locals,
                   lockHolder, lockWaiters, opCount, clock>>

\* admin_add_coins: update_user_balance(session, db_user.id, amount, ...)
AdminUpdate(t) ==
    /\ pc[t] = "update"
    /\ sess' = [sess EXCEPT ![t] =
                    update_user_balance(@, Credited, locals[t].amount,
                                        "admin_adjustment", NoGame)]
    /\ pc' = [pc EXCEPT ![t] = "commit"]
    /\ UNCHANGED <<users, transactions, games, participants, locals,
                   lockHolder, lockWaiters, opCount, clock>>

\* admin_add_coins: leaving get_session() commits, leaving the lock releases it
AdminCommit(t) ==
    /\ pc[t] = "commit"
    /\ LET after == get_session_exit(sess[t], FALSE) IN
        /\ users' = after[1]
        /\ transactions' = after[2]
        /\ games' = after[3]
    /\ LET after == ReleaseLock(lockHolder, lockWaiters, DiscordId(Credited)) IN
        /\ lockHolder' = after[1]
        /\ lockWaiters' = after[2]
    /\ sess' = [sess EXCEPT ![t] = EmptySession]
    /\ pc' = [pc EXCEPT ![t] = "done"]
    /\ UNCHANGED <<participants, locals, opCount, clock>>

\* A settlement that pays the winner the pot of both wagers.
FinalizeCredit_pays_pot(t) ==
    /\ pc[t] = "finalize"
    /\ LET v == locals[t] IN
        sess' = [sess EXCEPT ![t] =
                    update_user_balance(EmptySession, v.winner, 2 * v.amount,
                                        "duel_win", v.game)]
    /\ pc' = [pc EXCEPT ![t] = "debit"]
    /\ UNCHANGED <<users, transactions, games, participants, locals,
                   lockHolder, lockWaiters, opCount, clock>>

\* _finalize_duel: get_session(), update_user_balance(winner, +amount).
\* No lock is taken.
FinalizeCredit(t) ==
    /\ pc[t] = "finalize"
    /\ LET v == locals[t] IN
        sess' = [sess EXCEPT ![t] =
                    update_user_balance(EmptySession, v.winner, v.amount,
                                        "duel_win", v.game)]
    /\ pc' = [pc EXCEPT ![t] = "debit"]
    /\ UNCHANGED <<users, transactions, games, participants, locals,
                   lockHolder, lockWaiters, opCount, clock>>

\* _finalize_duel: update_user_balance(loser, -amount)
FinalizeDebit(t) ==
    /\ pc[t] = "debit"
    /\ LET v == locals[t] IN
        sess' = [sess EXCEPT ![t] =
                    update_user_balance(@, v.loser, -v.amount, "duel_loss", v.game)]
    /\ pc' = [pc EXCEPT ![t] = "commit"]
    /\ UNCHANGED <<users, transactions, games, participants, locals,
                   lockHolder, lockWaiters, opCount, clock>>

\* _finalize_duel: update_participant_result for both players,
\* update_game_status(COMPLETED); leaving get_session() commits.
FinalizeCommit(t) ==
    /\ pc[t] = "commit"
    /\ LET v == locals[t]
           after == get_session_exit(update_game_status(sess[t], v.game, "completed"), FALSE)
       IN /\ users' = after[1]
          /\ transactions' = after[2]
          /\ games' = after[3]
          /\ participants' = [participants EXCEPT ![v.game] =
                [i \in DOMAIN participants[v.game] |->
                    [participants[v.game][i] EXCEPT !.is_winner =
                        IF participants[v.game][i].user_id = v.winner
                        THEN "true" ELSE "false"]]]
    /\ sess' = [sess EXCEPT ![t] = EmptySession]
    /\ pc' = [pc EXCEPT ![t] = "done"]
    /\ UNCHANGED <<locals, lockHolder, lockWaiters, opCount, clock>>

ConcNext ==
    \/ \E t \in AdminTasks : AdminAcquire(t)
    \/ \E t \in AdminTasks : AdminRead(t)
    \/ \E t \in AdminTasks : AdminUpdate(t)
    \/ \E t \in AdminTasks : AdminCommit(t)
    \/ \E t \in DuelTasks : FinalizeCredit(t)
    \/ \E t \in DuelTasks : FinalizeDebit(t)
    \/ \E t \in DuelTasks : FinalizeCommit(t)

SpecConc == ConcInit /\ [][ConcNext]_vars

\* The accounts whose balance task t has read in its open unit of work and
\* not yet committed.
InFlight(t) == IF pc[t] = "done" THEN {} ELSE DOMAIN sess[t].cache

\* The locks of account u that the handlers use.
AccountLocks(u) == {u, DiscordId(u)}

\* C2: N concurrent +1 credits lose no update: when every task has finished,
\* the committed balance is the initial balance plus N.
C2_NoLostUpdate ==
    (\A t \in ConcTasks : pc[t] = "done")
        => users[Credited].balance = STARTING_BALANCE + Cardinality(ConcTasks)

\* C5: every read-validate-mutate sequence on an account runs under that
\* account's lock, so no two tasks are between reading and committing the
\* same account's balance at the same time.
C5_MutationsUnderLock ==
    /\ \A t \in ConcTasks : \A u \in InFlight(t) :
          \E k \in AccountLocks(u) : HoldsLock(t, k)
    /\ \A t1 \in ConcTasks, t2 \in ConcTasks :
          t1 # t2 => InFlight(t1) \cap InFlight(t2) = {}

----------------------------------------------------------------------------
(* cogs/group_pot.py: the group-pot game *)

MaxPotAmount == 4

GameRow(type, status, creator, channel, amount) ==
    [type |-> type, status |-> status, created_by_user_id |-> creator,
     channel_id |-> channel, amount |-> amount]

\* The Boolean column is_winner holds "true", "false" or "null" (NULL).
SqlBool(b) == IF b THEN "true" ELSE "false"

\* A row of duel_participants; result_value 0 and is_winner "null" are NULL.
ParticipantRow(u, bet) ==
    [user_id |-> u, bet_amount |-> bet, result_value |-> 0, is_winner |-> "null"]

SeqRange(q) == {q[i] : i \in 1..Len(q)}

MaxOf(S) == CHOOSE x \in S : \A y \in S : y <= x
MinOf(S) == CHOOSE x \in S : \A y \in S : x <= y

\* Local variables of _run_group_pot_game.  `rolls` maps the position of a
\* participant to the "roll" of its dict; `winners` and `losers` are lists of
\* positions: the Python lists hold the same dicts as `rolls`, so a re-roll of
\* a tied winner is seen through `losers` too.
PotLocals(g, parts, amount) ==
    [game |-> g, parts |-> parts, amount |-> amount, rolls |-> << >>,
     winners |-> << >>, losers |-> << >>, transfer |-> 0]

\* The positions of `among` (in list order) whose roll equals v.
Tied(rolls, among, v) == SelectSeq(among, LAMBDA i : rolls[i] = v)

Positions(n) == [i \in 1..n |-> i]

\* group_pot.py lines 551-555, once every participant has rolled.
InitialTies(v) ==
    LET all == Positions(Len(v.rolls))
        max_roll == MaxOf(SeqRange(v.rolls))
        min_roll == MinOf(SeqRange(v.rolls))
    IN  [v EXCEPT !.winners = Tied(v.rolls, all, max_roll),
                  !.losers  = Tied(v.rolls, all, min_roll)]

\* One pass of `while len(winners) > 1`: every tied winner rolls again (new
\* maps the tied positions to their new rolls), the best of them stay.
RerollWinners(v, new) ==
    LET rolls == [i \in DOMAIN v.rolls |->
                    IF i \in SeqRange(v.winners) THEN new[i] ELSE v.rolls[i]]
        max_roll == MaxOf({rolls[i] : i \in SeqRange(v.winners)})
    IN  [v EXCEPT !.rolls = rolls, !.winners = Tied(rolls, v.winners, max_roll)]

\* One pass of `while len(losers) > 1`.
RerollLosers(v, new) ==
    LET rolls == [i \in DOMAIN v.rolls |->
                    IF i \in SeqRange(v.losers) THEN new[i] ELSE v.rolls[i]]
        min_roll == MinOf({rolls[i] : i \in SeqRange(v.losers)})
    IN  [v EXCEPT !.rolls = rolls, !.losers = Tied(rolls, v.losers, min_roll)]

\* winner = winners[0], loser = losers[0], as positions and as accounts.
WinnerPos(v) == v.winners[1]
LoserPos(v) == v.losers[1]
WinnerOf(v) == v.parts[WinnerPos(v)]
LoserOf(v) == v.parts[LoserPos(v)]

\* transfer_amount = winner["roll"] - loser["roll"]
TransferAmount(v) == v.rolls[WinnerPos(v)] - v.rolls[LoserPos(v)]

\* GroupPot.group_start: creates the pending session with its creator as first
\* participant (no balance is read).
GroupStart(g) ==
    /\ g \notin DOMAIN games
    /\ \E u \in DOMAIN users, amount \in 1..MaxPotAmount :
        /\ games' = (g :> GameRow("group_pot", "pending", u, "channel", amount)) @@ games
        /\ participants' = (g :> <<ParticipantRow(u, amount)>>) @@ participants
    /\ UNCHANGED <<users, transactions, sess, pc, locals, lockHolder, lockWaiters, opCount, clock>>

\* GroupPotView.join_button: adds the user to a pending session (no balance is read).
JoinButton(g) ==
    /\ g \in DOMAIN games
    /\ games[g].status = "pending"
    /\ \E u \in DOMAIN users :
        /\ \A i \in 1..Len(participants[g]) : participants[g][i].user_id # u
        /\ participants' = [participants EXCEPT ![g] =
                                Append(@, ParticipantRow(u, games[g].amount))]
    /\ UNCHANGED <<users, transactions, games, sess, pc, locals,
                   lockHolder, lockWaiters, opCount, clock>>

\* GroupPotView.start_button pressed by the creator, then the start of
\* _run_group_pot_game (lines 485-492): a new session, the participants read.
StartButton(t, g) ==
    /\ pc[t] = "lobby"
    /\ g \in DOMAIN games
    /\ games[g].status = "pending"
    /\ Len(participants[g]) >= 2
    /\ games' = [games EXCEPT ![g].status = "active"]
    /\ sess' = [sess EXCEPT ![t] =
                    [EmptySession EXCEPT !.gcache = (g :> games'[g])]]
    /\ locals' = [locals EXCEPT ![t] =
                    PotLocals(g, [i \in 1..Len(participants[g]) |->
                                     participants[g][i].user_id], games[g].amount)]
    /\ pc' = [pc EXCEPT ![t] = "roll"]
    /\ UNCHANGED <<users, transactions, participants, lockHolder, lockWaiters, opCount, clock>>

\* One pass of the rolling loop (lines 506-545): the player's row is loaded
\* into the session, the roll is drawn, stored and committed.
PotRoll(t) ==
    /\ pc[t] = "roll"
    /\ LET v == locals[t]
           i == Len(v.rolls) + 1
       IN \E roll_value \in 1..v.amount :
            LET w == [v EXCEPT !.rolls = Append(@, roll_value)] IN
            /\ sess' = [sess EXCEPT ![t] = Loaded(@, v.parts[i])]
            /\ participants' = [participants EXCEPT ![v.game][i].result_value = roll_value]
            /\ locals' = [locals EXCEPT ![t] =
                            IF i = Len(v.parts) THEN InitialTies(w) ELSE w]
            /\ pc' = [pc EXCEPT ![t] = IF i = Len(v.parts) THEN "ties" ELSE "roll"]
    /\ UNCHANGED <<users, transactions, games, lockHolder, lockWaiters, opCount, clock>>

\* while len(winners) > 1 (lines 558-572)
PotRerollWinners(t) ==
    /\ pc[t] = "ties"
    /\ Len(locals[t].winners) > 1
    /\ \E new \in [SeqRange(locals[t].winners) -> 1..locals[t].amount] :
        locals' = [locals EXCEPT ![t] = RerollWinners(@, new)]
    /\ UNCHANGED <<users, transactions, games, participants, sess, pc,
                   lockHolder, lockWaiters, opCount, clock>>

\* while len(losers) > 1 (lines 574-588)
PotRerollLosers(t) ==
    /\ pc[t] = "ties"
    /\ Len(locals[t].winners) = 1
    /\ Len(locals[t].losers) > 1
    /\ \E new \in [SeqRange(locals[t].losers) -> 1..locals[t].amount] :
        locals' = [locals EXCEPT ![t] = RerollLosers(@, new)]
    /\ UNCHANGED <<users, transactions, games, participants, sess, pc,
                   lockHolder, lockWaiters, opCount, clock>>

\* Lines 590-599: the transfer is computed; when it is positive the winner's
\* lock and then the loser's lock are asked for (keyed by users.id).
PotSettle(t) ==
    /\ pc[t] = "ties"
    /\ Len(locals[t].winners) = 1
    /\ Len(locals[t].losers) = 1
    /\ LET v == locals[t]
           transfer == TransferAmount(v)
           first == AcquireLock(lockHolder, lockWaiters, t, WinnerOf(v))
           second == AcquireLock(first[1], first[2], t, LoserOf(v))
       IN /\ locals' = [locals EXCEPT ![t].transfer = transfer]
          /\ IF transfer <= 0
             THEN /\ pc' = [pc EXCEPT ![t] = "complete"]
                  /\ UNCHANGED <<lockHolder, lockWaiters>>
             ELSE IF first[1][WinnerOf(v)] # t
             THEN /\ pc' = [pc EXCEPT ![t] = "wait_winner"]
                  /\ lockHolder' = first[1]
                  /\ lockWaiters' = first[2]
             ELSE /\ pc' = [pc EXCEPT ![t] =
                                IF second[1][LoserOf(v)] = t THEN "debit" ELSE "wait_loser"]
                  /\ lockHolder' = second[1]
                  /\ lockWaiters' = second[2]
    /\ UNCHANGED <<users, transactions, games, participants, sess, opCount, clock>>

\* The winner's lock is handed over; the loser's lock is asked for (line 599).
PotWinnerLockGranted(t) ==
    /\ pc[t] = "wait_winner"
    /\ HoldsLock(t, WinnerOf(locals[t]))
    /\ LET second == AcquireLock(lockHolder, lockWaiters, t, LoserOf(locals[t])) IN
        /\ pc' = [pc EXCEPT ![t] =
                    IF second[1][LoserOf(locals[t])] = t THEN "debit" ELSE "wait_loser"]
        /\ lockHolder' = second[1]
        /\ lockWaiters' = second[2]
    /\ UNCHANGED <<users, transactions, games, participants, sess, locals, opCount, clock>>

\* The loser's lock is handed over.
PotLoserLockGranted(t) ==
    /\ pc[t] = "wait_loser"
    /\ HoldsLock(t, LoserOf(locals[t]))
    /\ pc' = [pc EXCEPT ![t] = "debit"]
    /\ UNCHANGED <<users, transactions, games, participants, sess, locals,
                   lockHolder, lockWaiters, opCount, clock>>

\* Lines 601-607: update_user_balance(loser, -transfer_amount)
PotDebit(t) ==
    /\ pc[t] = "debit"
    /\ LET v == locals[t] IN
        sess' = [sess EXCEPT ![t] =
                    update_user_balance(@, LoserOf(v), -v.transfer,
                                        "group_pot_loss", v.game)]
    /\ pc' = [pc EXCEPT ![t] = "credit"]
    /\ UNCHANGED <<users, transactions, games, participants, locals,
                   lockHolder, lockWaiters, opCount, clock>>

\* Lines 610-616: update_user_balance(winner, +transfer_amount)
PotCredit(t) ==
    /\ pc[t] = "credit"
    /\ LET v == locals[t] IN
        sess' = [sess EXCEPT ![t] =
                    update_user_balance(@, WinnerOf(v), v.transfer,
                                        "group_pot_win", v.game)]
    /\ pc' = [pc EXCEPT ![t] = "commit"]
    /\ UNCHANGED <<users, transactions, games, participants, locals,
                   lockHolder, lockWaiters, opCount, clock>>

\* Lines 619-625: the winner is marked, the session commits, and both locks
\* are released, the loser's (inner) first.
PotCommit(t) ==
    /\ pc[t] = "commit"
    /\ LET v == locals[t]
           after == get_session_exit(sess[t], FALSE)
           inner == ReleaseLock(lockHolder, lockWaiters, LoserOf(v))
           outer == ReleaseLock(inner[1], inner[2], WinnerOf(v))
       IN /\ users' = after[1]
          /\ transactions' = after[2]
          /\ participants' = [participants EXCEPT
                                ![v.game][WinnerPos(v)].is_winner = "true"]
          /\ lockHolder' = outer[1]
          /\ lockWaiters' = outer[2]
    /\ sess' = [sess EXCEPT ![t] = AfterCommit(@)]
    /\ pc' = [pc EXCEPT ![t] = "complete"]
    /\ UNCHANGED <<games, locals, opCount, clock>>

\* Lines 628-629: update_game_status(COMPLETED), commit.
PotComplete(t) ==
    /\ pc[t] = "complete"
    /\ games' = [games EXCEPT ![locals[t].game].status = "completed"]
    /\ sess' = [sess EXCEPT ![t] = EmptySession]
    /\ pc' = [pc EXCEPT ![t] = "done"]
    /\ UNCHANGED <<users, transactions, participants, locals,
                   lockHolder, lockWaiters, opCount, clock>>

----------------------------------------------------------------------------
(* Specification SpecPot: one group-pot game from group_start to settlement *)

PotTask == "pot"
PotGame == "g1"

\* Balances the players hold when the game is proposed: one of them is broke.
PotInitialBalance(u) == IF u = 1 THEN 0 ELSE STARTING_BALANCE

PotInit ==
    /\ users = [u \in Accounts |->
                  UserRow(PotInitialBalance(u), STARTING_BALANCE,
                          STARTING_BALANCE - PotInitialBalance(u))]
    /\ transactions = << >>
    /\ games = << >>
    /\ participants = << >>
    /\ sess = (PotTask :> EmptySession)
    /\ pc = (PotTask :> "lobby")
    /\ locals = (PotTask :> PotLocals(PotGame, << >>, 0))
    /\ lockHolder = Unlocked
    /\ lockWaiters = NoWaiters
    /\ opCount = 0
    /\ clock = Epoch

PotNext ==
    \/ GroupStart(PotGame)
    \/ JoinButton(PotGame)
    \/ StartButton(PotTask, PotGame)
    \/ PotRoll(PotTask)
    \/ PotRerollWinners(PotTask)
    \/ PotRerollLosers(PotTask)
    \/ PotSettle(PotTask)
    \/ PotDebit(PotTask)
    \/ PotCredit(PotTask)
    \/ PotCommit(PotTask)
    \/ PotComplete(PotTask)

SpecPot == PotInit /\ [][PotNext]_vars

\* C3: in every committed state every account's balance is >= 0.
C3_BalanceNeverNegative == \A u \in DOMAIN users : users[u].balance >= 0

RECURSIVE SumBalances(_)
SumBalances(S) ==
    IF S = {} THEN 0
    ELSE LET u == CHOOSE x \in S : TRUE IN users[u].balance + SumBalances(S \ {u})

RECURSIVE SumInitialBalances(_)
SumInitialBalances(S) ==
    IF S = {} THEN 0
    ELSE LET u == CHOOSE x \in S : TRUE IN
            PotInitialBalance(u) + SumInitialBalances(S \ {u})

\* The change of account u's committed balance since the game was proposed.
PotDelta(u) == users[u].balance - PotInitialBalance(u)

\* C10: a settled group-pot game has moved winner's final roll minus loser's
\* final roll, an amount between 0 and amount-1, from the loser to the winner;
\* no other balance has changed and the sum of all balances is unchanged.
C10_PotTransfersSpread ==
    pc[PotTask] = "done" =>
        LET v == locals[PotTask]
            spread == v.rolls[WinnerPos(v)] - v.rolls[LoserPos(v)]
        IN  /\ 0 <= spread /\ spread <= v.amount - 1
            /\ WinnerOf(v) # LoserOf(v) =>
                  /\ PotDelta(WinnerOf(v)) = spread
                  /\ PotDelta(LoserOf(v)) = -spread
            /\ \A u \in Accounts \ {WinnerOf(v), LoserOf(v)} : PotDelta(u) = 0
            /\ SumBalances(Accounts) = SumInitialBalances(Accounts)

\* The part of C10 the code keeps: whatever the rolls, a settled game has
\* changed at most the winner's and the loser's balance, by opposite amounts.
PotSettlementIsZeroSum ==
    pc[PotTask] = "done" =>
        /\ \A u \in Accounts \ {WinnerOf(locals[PotTask]), LoserOf(locals[PotTask])} :
              PotDelta(u) = 0
        /\ SumBalances(Accounts) = SumInitialBalances(Accounts)

\* C11: when a group-pot game settles, the winner and the loser are distinct
\* participants, the winner alone holds the maximum and the loser alone the
\* minimum of the final rolls, and the winner's roll is above the loser's.
C11_UniqueWinnerAndLoser ==
    pc[PotTask] \in {"complete", "debit", "credit", "commit", "done"} =>
        LET v == locals[PotTask]
            final == v.rolls
            others(i) == DOMAIN final \ {i}
        IN  /\ WinnerPos(v) # LoserPos(v)
            /\ \A j \in others(WinnerPos(v)) : final[j] < final[WinnerPos(v)]
            /\ \A j \in others(LoserPos(v)) : final[j] > final[LoserPos(v)]
            /\ final[WinnerPos(v)] > final[LoserPos(v)]

----------------------------------------------------------------------------
(* Specification SpecSettle: three group-pot games, in three channels, each  *)
(* joined by two players; every game has drawn its rolls, none has settled   *)
(* yet; the event loop runs every task that is ready                        *)

SettleAmount == 2
SettleTasks == {"pot1", "pot2", "pot3"}
SettleGames == {"g1", "g2", "g3"}
SettleGameOf(t) == IF t = "pot1" THEN "g1" ELSE IF t = "pot2" THEN "g2" ELSE "g3"
SettleTaskOf(g) == CHOOSE t \in SettleTasks : SettleGameOf(t) = g

\* The players a game may have, its creator first: accounts 1 and 2 play the
\* first two games, and the third one too unless account 3 created it.
SettlePlayers(t) == IF t = "pot3" THEN {<<1, 2>>, <<3, 2>>} ELSE {<<1, 2>>}

\* The locals of _run_group_pot_game at line 590 after the rolls `rolls`.
Rolled(g, players, rolls) ==
    InitialTies([PotLocals(g, players, SettleAmount) EXCEPT !.rolls = rolls])

\* The rolls of a game that needs no tie-break.
UntiedRolls == {r \in [1..2 -> 1..SettleAmount] : r[1] # r[2]}

SettleInit ==
    /\ users = [u \in Accounts |-> UserRow(STARTING_BALANCE, STARTING_BALANCE, 0)]
    /\ transactions = << >>
    /\ \E third \in SettlePlayers("pot3"), drawn \in [SettleTasks -> UntiedRolls] :
       LET players == [t \in SettleTasks |->
                          IF t = "pot3" THEN third ELSE CHOOSE p \in SettlePlayers(t) : TRUE]
       IN
        /\ games = [g \in SettleGames |->
              GameRow("group_pot", "active", players[SettleTaskOf(g)][1], g, SettleAmount)]
        /\ participants = [g \in SettleGames |->
              [i \in 1..2 |->
                  [ParticipantRow(players[SettleTaskOf(g)][i], SettleAmount) EXCEPT
                      !.result_value = drawn[SettleTaskOf(g)][i]]]]
        /\ locals = [t \in SettleTasks |-> Rolled(SettleGameOf(t), players[t], drawn[t])]
        /\ sess = [t \in SettleTasks |->
              [Loaded(Loaded(EmptySession, players[t][1]), players[t][2])
                  EXCEPT !.gcache = (SettleGameOf(t) :> games[SettleGameOf(t)])]]
    /\ pc = [t \in SettleTasks |-> "ties"]
    /\ lockHolder = Unlocked
    /\ lockWaiters = NoWaiters
    /\ opCount = 0
    /\ clock = Epoch

SettleStep(t) ==
    \/ PotSettle(t)
    \/ PotWinnerLockGranted(t)
    \/ PotLoserLockGranted(t)
    \/ PotDebit(t)
    \/ PotCredit(t)
    \/ PotCommit(t)
    \/ PotComplete(t)

SettleNext == \E t \in SettleTasks : SettleStep(t)

SpecSettle ==
    SettleInit /\ [][SettleNext]_vars /\ \A t \in SettleTasks : WF_vars(SettleStep(t))

\* Task t has asked for an account lock that it does not hold yet.
WaitsForLock(t) == pc[t] \in {"wait_winner", "wait_loser"}

\* C6: concurrently settling games cannot deadlock: every task that waits for
\* an account lock eventually holds both locks and settles.
C6_NoSettlementDeadlock ==
    \A t \in SettleTasks : WaitsForLock(t) ~> (pc[t] = "debit")

----------------------------------------------------------------------------
(* cogs/duel.py: the decreasing duel *)

MaxWager == 3
MaxDuelRolls == 4

NoAccount == "nobody"

\* Local variables of duel_start, _run_duel and _finalize_duel.
DuelLocals ==
    [game |-> NoGame, challenger |-> NoAccount, opponent |-> NoAccount, amount |-> 0,
     current_max |-> 0, current_player_idx |-> 0, rolls_log |-> << >>,
     winner |-> NoAccount, loser |-> NoAccount]

\* get_active_game_for_user: a pending or active session u takes part in.
get_active_game_for_user(u) ==
    {g \in DOMAIN games :
        /\ games[g].status \in {"pending", "active"}
        /\ \E i \in DOMAIN participants[g] : participants[g][i].user_id = u}

\* get_pending_duel_for_user: a pending duel u takes part in.
get_pending_duel_for_user(u) ==
    {g \in DOMAIN games :
        /\ games[g].type = "decreasing_duel"
        /\ games[g].status = "pending"
        /\ \E i \in DOMAIN participants[g] : participants[g][i].user_id = u}

\* players[current_player_idx]
CurrentPlayer(v) == IF v.current_player_idx = 0 THEN v.challenger ELSE v.opponent
OtherPlayer(v) == IF v.current_player_idx = 0 THEN v.opponent ELSE v.challenger

\* Duel.duel_start up to `await view.wait()` (lines 93-225): the inputs and
\* both balances are validated, the pending session and its two participants
\* are created and committed.
duel_start(t, g) ==
    /\ pc[t] = "idle"
    /\ g \notin DOMAIN games
    /\ \E challenger \in DOMAIN users, opponent \in DOMAIN users, amount \in 0..MaxWager :
        /\ opponent # challenger
        /\ amount > 0
        /\ users[challenger].balance >= amount
        /\ users[opponent].balance >= amount
        /\ get_active_game_for_user(challenger) = {}
        /\ get_active_game_for_user(opponent) = {}
        /\ games' = (g :> GameRow("decreasing_duel", "pending", challenger, "channel", amount))
                        @@ games
        /\ participants' = (g :> <<ParticipantRow(challenger, amount),
                                   ParticipantRow(opponent, amount)>>) @@ participants
        /\ locals' = [locals EXCEPT ![t] =
                        [DuelLocals EXCEPT !.game = g, !.challenger = challenger,
                                           !.opponent = opponent, !.amount = amount]]
    /\ pc' = [pc EXCEPT ![t] = "wait"]
    /\ UNCHANGED <<users, transactions, sess, lockHolder, lockWaiters, opCount, clock>>

\* DuelChallengeView.accept_button: view.wait() returns with response True,
\* whatever the session's status is by now.
accept_button(t) ==
    /\ pc[t] = "wait"
    /\ pc' = [pc EXCEPT ![t] = "run"]
    /\ UNCHANGED <<users, transactions, games, participants, sess, locals,
                   lockHolder, lockWaiters, opCount, clock>>

\* DuelChallengeView.decline_button, then duel_start lines 230-240.
decline_button(t) ==
    /\ pc[t] = "wait"
    /\ games' = get_session_exit(
                    update_game_status(EmptySession, locals[t].game, "cancelled"), FALSE)[3]
    /\ pc' = [pc EXCEPT ![t] = "done"]
    /\ UNCHANGED <<users, transactions, participants, sess, locals,
                   lockHolder, lockWaiters, opCount, clock>>

\* DuelChallengeView.on_timeout, then duel_start lines 241-252.
on_timeout(t) ==
    /\ pc[t] = "wait"
    /\ games' = get_session_exit(
                    update_game_status(EmptySession, locals[t].game, "cancelled"), FALSE)[3]
    /\ pc' = [pc EXCEPT ![t] = "done"]
    /\ UNCHANGED <<users, transactions, participants, sess, locals,
                   lockHolder, lockWaiters, opCount, clock>>

\* A _run_duel that trusts the check made by duel_start.
run_duel_without_recheck(t) ==
    /\ pc[t] = "run"
    /\ games' = get_session_exit(
                    update_game_status(EmptySession, locals[t].game, "active"), FALSE)[3]
    /\ pc' = [pc EXCEPT ![t] = "loop"]
    /\ locals' = [locals EXCEPT ![t].current_max = locals[t].amount,
                                ![t].current_player_idx = 0]
    /\ UNCHANGED <<users, transactions, participants, sess,
                   lockHolder, lockWaiters, opCount, clock>>

\* Duel._run_duel lines 263-296: the balances are checked again; with too low
\* a balance the session is cancelled and _run_duel returns (line 279), else
\* the session becomes active.  Its current status is not looked at.
run_duel(t) ==
    /\ pc[t] = "run"
    /\ LET v == locals[t]
           broke == \/ users[v.challenger].balance < v.amount
                    \/ users[v.opponent].balance < v.amount
           status == IF broke THEN "cancelled" ELSE "active"
       IN /\ games' = get_session_exit(
                          update_game_status(EmptySession, v.game, status), FALSE)[3]
          /\ pc' = [pc EXCEPT ![t] = IF broke THEN "insufficient_funds" ELSE "loop"]
          /\ locals' = IF broke THEN locals
                       ELSE [locals EXCEPT ![t].current_max = v.amount,
                                           ![t].current_player_idx = 0]
    /\ UNCHANGED <<users, transactions, participants, sess,
                   lockHolder, lockWaiters, opCount, clock>>

\* One pass of `while current_max > 1` (lines 298-350): the current player
\* draws from 1..current_max; a 1 loses, any other roll is the new ceiling and
\* the turn passes.
duel_roll(t) ==
    /\ pc[t] = "loop"
    /\ locals[t].current_max > 1
    /\ Len(locals[t].rolls_log) < MaxDuelRolls
    /\ LET v == locals[t] IN
       \E roll \in 1..v.current_max :
        LET logged == [v EXCEPT !.rolls_log =
                          Append(@, [player |-> CurrentPlayer(v), roll |-> roll,
                                     current_max |-> v.current_max])]
        IN  /\ locals' = [locals EXCEPT ![t] =
                IF roll = 1
                THEN [logged EXCEPT !.loser = CurrentPlayer(v), !.winner = OtherPlayer(v)]
                ELSE [logged EXCEPT !.current_max = roll,
                                    !.current_player_idx = 1 - v.current_player_idx]]
            /\ pc' = [pc EXCEPT ![t] = IF roll = 1 THEN "finalize" ELSE "loop"]
    /\ UNCHANGED <<users, transactions, games, participants, sess,
                   lockHolder, lockWaiters, opCount, clock>>

\* Lines 352-369, after the loop: with a ceiling of 1 the current player loses
\* without drawing; the log gets the entry (player, 1, 1).
duel_automatic_loss(t) ==
    /\ pc[t] = "loop"
    /\ ~(locals[t].current_max > 1)
    /\ LET v == locals[t] IN
        locals' = [locals EXCEPT ![t] =
            [v EXCEPT !.loser = CurrentPlayer(v), !.winner = OtherPlayer(v),
                      !.rolls_log = Append(@, [player |-> CurrentPlayer(v), roll |-> 1,
                                               current_max |-> 1])]]
    /\ pc' = [pc EXCEPT ![t] = "finalize"]
    /\ UNCHANGED <<users, transactions, games, participants, sess,
                   lockHolder, lockWaiters, opCount, clock>>

\* Duel.duel_cancel lines 457-477: the caller's pending duel is read and the
\* caller must be its creator.
duel_cancel_read(c) ==
    /\ pc[c] = "idle"
    /\ \E u \in DOMAIN users, g \in DOMAIN games :
        /\ g \in get_pending_duel_for_user(u)
        /\ games[g].created_by_user_id = u
        /\ locals' = [locals EXCEPT ![c] = [DuelLocals EXCEPT !.game = g]]
    /\ pc' = [pc EXCEPT ![c] = "cancel"]
    /\ UNCHANGED <<users, transactions, games, participants, sess,
                   lockHolder, lockWaiters, opCount, clock>>

\* Duel.duel_cancel line 479 and the commit on leaving get_session().
duel_cancel_write(c) ==
    /\ pc[c] = "cancel"
    /\ games' = get_session_exit(
                    update_game_status(EmptySession, locals[c].game, "cancelled"), FALSE)[3]
    /\ pc' = [pc EXCEPT ![c] = "idle"]
    /\ UNCHANGED <<users, transactions, participants, sess, locals,
                   lockHolder, lockWaiters, opCount, clock>>

----------------------------------------------------------------------------
(* Specification SpecDuel: one duel from duel_start to its settlement, and   *)
(* the challenger's duel_cancel commands                                     *)

DuelTask == "duel_start"
CancelTask == "duel_cancel"
DuelGame == "g1"

DuelInit ==
    /\ users = [u \in Accounts |-> UserRow(STARTING_BALANCE, STARTING_BALANCE, 0)]
    /\ transactions = << >>
    /\ games = << >>
    /\ participants = << >>
    /\ sess = (DuelTask :> EmptySession) @@ (CancelTask :> EmptySession)
    /\ pc = (DuelTask :> "idle") @@ (CancelTask :> "idle")
    /\ locals = (DuelTask :> DuelLocals) @@ (CancelTask :> DuelLocals)
    /\ lockHolder = Unlocked
    /\ lockWaiters = NoWaiters
    /\ opCount = 0
    /\ clock = Epoch

DuelNext ==
    \/ duel_start(DuelTask, DuelGame)
    \/ accept_button(DuelTask)
    \/ decline_button(DuelTask)
    \/ on_timeout(DuelTask)
    \/ run_duel(DuelTask)
    \/ duel_roll(DuelTask)
    \/ duel_automatic_loss(DuelTask)
    \/ FinalizeCredit(DuelTask)
    \/ FinalizeDebit(DuelTask)
    \/ FinalizeCommit(DuelTask)
    \/ duel_cancel_read(CancelTask)
    \/ duel_cancel_write(CancelTask)

SpecDuel == DuelInit /\ [][DuelNext]_vars

\* C7: a completed or cancelled session keeps its status for ever, no session
\* returns to pending, and a session becomes active only from pending.
C7_TerminalStatusIsFinal ==
    [][\A g \in DOMAIN games :
          /\ games[g].status \in {"completed", "cancelled"}
                => games'[g].status = games[g].status
          /\ games[g].status # "pending" => games'[g].status # "pending"
          /\ (games'[g].status = "active" /\ games[g].status # "active")
                => games[g].status = "pending"]_vars

\* C8: a session is cancelled only while it is pending, and an active session
\* can only stay active or become completed.
C8_CancelledOnlyFromPending ==
    [][\A g \in DOMAIN games :
          /\ (games'[g].status = "cancelled" /\ games[g].status # "cancelled")
                => games[g].status = "pending"
          /\ games[g].status = "active"
                => games'[g].status \in {"active", "completed"}]_vars

\* The duel has been played and _finalize_duel has committed.
DuelSettled == pc[DuelTask] = "done" /\ Len(locals[DuelTask].rolls_log) > 0

\* C9: in a settled duel the turns alternate from the challenger on, every
\* roll but the last is the next ceiling, the loser is the player of the last
\* turn, who drew a 1 or faced a ceiling of 1 and did not draw; the winner's
\* balance has grown by the wager and the loser's has shrunk by the wager,
\* with one transaction row each.
C9_DuelLoserAndSettlement ==
    DuelSettled =>
        LET v == locals[DuelTask]
            log == v.rolls_log
            n == Len(log)
        IN  /\ \A i \in 1..n :
                  log[i].player = IF i % 2 = 1 THEN v.challenger ELSE v.opponent
            /\ log[1].current_max = v.amount
            /\ \A i \in 1..(n - 1) :
                  /\ log[i].roll > 1 /\ log[i].roll <= log[i].current_max
                  /\ log[i + 1].current_max = log[i].roll
            /\ log[n].roll = 1
            /\ log[n].current_max = 1 => n = 1
            /\ v.loser = log[n].player
            /\ {v.winner, v.loser} = {v.challenger, v.opponent}
            /\ users[v.winner].balance = STARTING_BALANCE + v.amount
            /\ users[v.loser].balance = STARTING_BALANCE - v.amount
            /\ \A u \in Accounts \ {v.winner, v.loser} :
                  users[u].balance = STARTING_BALANCE
            /\ TxOfGame(transactions, v.game) =
                  <<TxRow(v.winner, v.amount, "duel_win", v.game),
                    TxRow(v.loser, -v.amount, "duel_loss", v.game)>>

\* A settled duel of three turns that the challenger lost by drawing a 1.
C9_Witness ==
    /\ DuelSettled
    /\ Len(locals[DuelTask].rolls_log) = 3
    /\ locals[DuelTask].rolls_log[3].current_max > 1
    /\ locals[DuelTask].loser = locals[DuelTask].challenger
    /\ users[locals[DuelTask].opponent].balance
          = STARTING_BALANCE + locals[DuelTask].amount

----------------------------------------------------------------------------
(* Time: datetimes of crud.py, in minutes *)

\* config.py
DAILY_REWARD == 10000
DAILY_RESET_HOUR == 3
HOURLY_REWARD == 1000
TIMEZONE == "Europe/Warsaw"
DAILY_STREAK_BONUS_PER_DAY == 10       \* 0.10, in hundredths
DAILY_STREAK_DAY7_REWARD == 20000
DAILY_STREAK_MAX_BONUS_DAY == 7
DAILY_STREAK_INSURANCE_COST == 25000
HOURLY_STREAK_BONUS_PER_HOUR == 10     \* 0.10, in hundredths
HOURLY_STREAK_MAX_REWARD == 1500
HOURLY_STREAK_MAX_BONUS_HOUR == 5
HOURLY_STREAK_MISSED_THRESHOLD == 2
HOURLY_STREAK_INSURANCE_COST == 2500

MinutesPerHour == 60        \* timedelta(hours=1)
MinutesPerDay == 1440       \* timedelta(days=1)

\* datetime.now(ZoneInfo(config.TIMEZONE))
Now == DateTime(clock.utc + clock.offset, TIMEZONE)

\* The handlers' normalisation of a stored timestamp: a naive value is taken
\* to be UTC and converted to the zone, an aware one is converted to the zone.
AsLocal(dt) ==
    IF dt.tz = "naive" THEN DateTime(dt.wall + clock.offset, TIMEZONE)
    ELSE IF dt.tz = "UTC" THEN DateTime(dt.wall + clock.offset, TIMEZONE)
    ELSE dt

\* dt.replace(hour=h, minute=0, second=0, microsecond=0)
ReplaceHour(dt, h) ==
    DateTime((dt.wall \div MinutesPerDay) * MinutesPerDay + h * MinutesPerHour, dt.tz)

\* dt.replace(minute=0, second=0, microsecond=0)
ReplaceMinute(dt) == DateTime((dt.wall \div MinutesPerHour) * MinutesPerHour, dt.tz)

\* dt + timedelta(minutes=m)
Plus(dt, m) == DateTime(dt.wall + m, dt.tz)

\* Start of the reset period that contains now (can_claim_daily,
\* check_daily_streak_status, purchase_daily_streak_insurance).
current_period_start ==
    LET today_reset == ReplaceHour(Now, DAILY_RESET_HOUR)
    IN  IF Now.wall < today_reset.wall THEN Plus(today_reset, -MinutesPerDay)
        ELSE today_reset

current_hour_start == ReplaceMinute(Now)

----------------------------------------------------------------------------
(* crud.py: rewards, claim windows and streaks *)

\* int(DAILY_REWARD * (1.0 + 0.10 * (streak - 1))): for the streaks below the
\* cap the double-precision product is within 2e-12 above the exact value, so
\* the truncation yields the exact integer.
calculate_daily_reward_unclamped(streak) ==
    IF streak >= DAILY_STREAK_MAX_BONUS_DAY THEN DAILY_STREAK_DAY7_REWARD
    ELSE (DAILY_REWARD * (100 + DAILY_STREAK_BONUS_PER_DAY * (streak - 1))) \div 100

calculate_daily_reward(streak) ==
    LET s == IF streak <= 0 THEN 1 ELSE streak
    IN  IF s >= DAILY_STREAK_MAX_BONUS_DAY THEN DAILY_STREAK_DAY7_REWARD
        ELSE (DAILY_REWARD * (100 + DAILY_STREAK_BONUS_PER_DAY * (s - 1))) \div 100

calculate_hourly_reward(streak) ==
    LET s == IF streak <= 0 THEN 1 ELSE streak
    IN  IF s >= HOURLY_STREAK_MAX_BONUS_HOUR THEN HOURLY_STREAK_MAX_REWARD
        ELSE (HOURLY_REWARD * (100 + HOURLY_STREAK_BONUS_PER_HOUR * (s - 1))) \div 100

can_claim_daily(user) ==
    IF user.last_daily = None THEN TRUE
    ELSE AsLocal(user.last_daily).wall < current_period_start.wall

can_claim_hourly(user) ==
    IF user.last_hourly = None THEN TRUE
    ELSE AsLocal(user.last_hourly).wall < current_hour_start.wall

\* <<is_broken, missed_periods>>
check_daily_streak_status(user) ==
    IF user.last_daily = None THEN <<FALSE, 0>>
    ELSE LET last_daily == AsLocal(user.last_daily)
             at_reset == ReplaceHour(last_daily, DAILY_RESET_HOUR)
             last_claim_period_start ==
                 IF last_daily.wall < at_reset.wall THEN Plus(at_reset, -MinutesPerDay)
                 ELSE at_reset
             days_diff == (current_period_start.wall - last_claim_period_start.wall)
                              \div MinutesPerDay
         IN  IF last_daily.wall >= current_period_start.wall THEN <<FALSE, 0>>
             ELSE <<days_diff > 1, IF days_diff - 1 > 0 THEN days_diff - 1 ELSE 0>>

\* <<is_broken, missed_hours>>
check_hourly_streak_status(user) ==
    IF user.last_hourly = None THEN <<FALSE, 0>>
    ELSE LET last_claim_hour_start == ReplaceMinute(AsLocal(user.last_hourly))
             hours_diff == (current_hour_start.wall - last_claim_hour_start.wall)
                               \div MinutesPerHour
         IN  IF hours_diff <= 0 THEN <<FALSE, 0>>
             ELSE <<hours_diff - 1 >= HOURLY_STREAK_MISSED_THRESHOLD, hours_diff - 1>>

----------------------------------------------------------------------------
(* crud.py: writes of the claim and streak columns *)

\* A user row with the claim, streak and experience columns.
PlayerRow(b) ==
    [balance |-> b, lifetime_earned |-> STARTING_BALANCE,
     lifetime_lost |-> STARTING_BALANCE - b,
     last_daily |-> None, last_hourly |-> None,
     daily_streak |-> 0, daily_streak_best |-> 0,
     hourly_streak |-> 0, hourly_streak_best |-> 0,
     experience_points |-> 0, level |-> 1]

\* session.execute(update(User).where(User.id == u).values(vals)); flush():
\* the columns are written and the loaded object takes the new values.
UpdateUser(s, u, vals) ==
    LET old == get_user_by_id(s, u)
        new == [c \in DOMAIN old |-> IF c \in DOMAIN vals THEN vals[c] ELSE old[c]]
    IN  [s EXCEPT !.cache   = (u :> new) @@ @,
                  !.written = [@ EXCEPT ![u] = @ \cup DOMAIN vals]]

update_last_daily(s, u) == UpdateUser(s, u, [last_daily |-> Now])

update_last_hourly(s, u) == UpdateUser(s, u, [last_hourly |-> Now])

\* The session after the call and the returned (new_streak, reward, is_personal_best).
update_daily_streak(s, u) ==
    LET user == get_user_by_id(s, u)
        is_broken == check_daily_streak_status(user)[1]
        new_streak == IF is_broken THEN 1 ELSE user.daily_streak + 1
        new_best == IF new_streak > user.daily_streak_best THEN new_streak
                    ELSE user.daily_streak_best
    IN  [session |-> UpdateUser(s, u, [daily_streak |-> new_streak,
                                       daily_streak_best |-> new_best]),
         new_streak |-> new_streak,
         reward |-> calculate_daily_reward(new_streak),
         is_personal_best |-> new_streak > user.daily_streak_best]

update_hourly_streak_forgets_best(s, u) ==
    LET user == get_user_by_id(s, u)
        is_broken == check_hourly_streak_status(user)[1]
        new_streak == IF is_broken THEN 1 ELSE user.hourly_streak + 1
    IN  [session |-> UpdateUser(s, u, [hourly_streak |-> new_streak,
                                       hourly_streak_best |-> new_streak]),
         new_streak |-> new_streak,
         reward |-> calculate_hourly_reward(new_streak),
         is_personal_best |-> new_streak > user.hourly_streak_best]

update_hourly_streak(s, u) ==
    LET user == get_user_by_id(s, u)
        is_broken == check_hourly_streak_status(user)[1]
        new_streak == IF is_broken THEN 1 ELSE user.hourly_streak + 1
        new_best == IF new_streak > user.hourly_streak_best THEN new_streak
                    ELSE user.hourly_streak_best
    IN  [session |-> UpdateUser(s, u, [hourly_streak |-> new_streak,
                                       hourly_streak_best |-> new_best]),
         new_streak |-> new_streak,
         reward |-> calculate_hourly_reward(new_streak),
         is_personal_best |-> new_streak > user.hourly_streak_best]

\* The session after the call and the returned success flag.
purchase_daily_streak_insurance_unchecked(s, u) ==
    LET user == get_user_by_id(s, u)
        cost == DAILY_STREAK_INSURANCE_COST
        restored_time == Plus(current_period_start, 1)
    IN  IF ~check_daily_streak_status(user)[1] THEN [session |-> s, success |-> FALSE]
        ELSE [session |-> UpdateUser(
                              update_user_balance(s, u, -cost,
                                                  "daily_streak_insurance", NoGame),
                              u, [last_daily |-> restored_time]),
              success |-> TRUE]

purchase_daily_streak_insurance(s, u) ==
    LET user == get_user_by_id(s, u)
        cost == DAILY_STREAK_INSURANCE_COST
        previous_period_start == current_period_start
        restored_time == Plus(previous_period_start, 1)
    IN  IF ~check_daily_streak_status(user)[1] THEN [session |-> s, success |-> FALSE]
        ELSE IF user.balance < cost THEN [session |-> s, success |-> FALSE]
        ELSE [session |-> UpdateUser(
                              update_user_balance(s, u, -cost,
                                                  "daily_streak_insurance", NoGame),
                              u, [last_daily |-> restored_time]),
              success |-> TRUE]

purchase_hourly_streak_insurance_resets_streak(s, u) ==
    LET user == get_user_by_id(s, u)
        cost == HOURLY_STREAK_INSURANCE_COST
        previous_hour == Plus(current_hour_start, -MinutesPerHour)
        restored_time == Plus(previous_hour, 1)
    IN  IF ~check_hourly_streak_status(user)[1] THEN [session |-> s, success |-> FALSE]
        ELSE IF user.balance < cost THEN [session |-> s, success |-> FALSE]
        ELSE [session |-> UpdateUser(
                              update_user_balance(s, u, -cost,
                                                  "hourly_streak_insurance", NoGame),
                              u, [last_hourly |-> restored_time, hourly_streak |-> 0]),
              success |-> TRUE]

purchase_hourly_streak_insurance(s, u) ==
    LET user == get_user_by_id(s, u)
        cost == HOURLY_STREAK_INSURANCE_COST
        previous_hour == Plus(current_hour_start, -MinutesPerHour)
        restored_time == Plus(previous_hour, 1)
    IN  IF ~check_hourly_streak_status(user)[1] THEN [session |-> s, success |-> FALSE]
        ELSE IF user.balance < cost THEN [session |-> s, success |-> FALSE]
        ELSE [session |-> UpdateUser(
                              update_user_balance(s, u, -cost,
                                                  "hourly_streak_insurance", NoGame),
                              u, [last_hourly |-> restored_time]),
              success |-> TRUE]

----------------------------------------------------------------------------
(* Specification SpecStreak: one registered user claims rewards and buys
   streak insurance while the clock advances.  The commands of one user are
   serialised by the user's lock, and each runs in a session of its own. *)

MaxDays == 3
MaxStreakOps == 3

StreakTask == "economy"
StreakUser == 1
Tracks == {"daily", "hourly"}

\* UTC offsets of the zone: CET and CEST.
UtcOffsets == {MinutesPerHour, 2 * MinutesPerHour}

\* Wall-clock readings at which something happens: 02:59, 03:01, 04:30 and
\* 08:30 of each day.
DayTimes == {2 * MinutesPerHour + 59, 3 * MinutesPerHour + 1,
             4 * MinutesPerHour + 30, 8 * MinutesPerHour + 30}
TimePoints == {d * MinutesPerDay + m : d \in 1..MaxDays, m \in DayTimes}
FirstTimePoint == MinutesPerDay + 2 * MinutesPerHour + 59

StreakInitialBalances == {2000, STARTING_BALANCE}

\* What the last command saw (at: its reading of now) and returned, and per
\* track the streak at the last insurance purchase that no successful claim
\* has followed yet (-1: none).
StreakLocals ==
    [command |-> "none", track |-> "none", success |-> FALSE,
     at |-> 0, before |-> PlayerRow(0), tx_before |-> 0, is_broken |-> FALSE,
     new_streak |-> 0, reward |-> 0, is_personal_best |-> FALSE,
     insured |-> -1, saved |-> [k \in Tracks |-> -1]]

StreakInit ==
    /\ \E b \in StreakInitialBalances :
          /\ users = (StreakUser :> PlayerRow(b))
          /\ transactions =
                IF b = STARTING_BALANCE
                THEN <<TxRow(StreakUser, STARTING_BALANCE, "initial_grant", NoGame)>>
                ELSE <<TxRow(StreakUser, STARTING_BALANCE, "initial_grant", NoGame),
                       TxRow(StreakUser, b - STARTING_BALANCE, "slots_loss", NoGame)>>
    /\ games = << >>
    /\ participants = << >>
    /\ sess = (StreakTask :> EmptySession)
    /\ pc = (StreakTask :> "idle")
    /\ locals = (StreakTask :> StreakLocals)
    /\ lockHolder = [k \in LockKeys |-> NoTask]
    /\ lockWaiters = [k \in LockKeys |-> << >>]
    /\ opCount = 0
    /\ \E off \in UtcOffsets : clock = [utc |-> FirstTimePoint - off, offset |-> off]

StreakFrame == UNCHANGED <<games, participants, pc, lockHolder, lockWaiters, clock>>

\* Time passes.
Tick ==
    /\ \E w \in TimePoints :
          /\ w > Now.wall
          /\ clock' = [clock EXCEPT !.utc = w - clock.offset]
    /\ UNCHANGED <<users, transactions, games, participants, sess, pc, locals,
                   lockHolder, lockWaiters, opCount>>

\* The commit at the exit of the command's session.
StreakCommit(s) ==
    LET out == get_session_exit(s, FALSE)
    IN  /\ users' = out[1]
        /\ transactions' = out[2]
        /\ sess' = [sess EXCEPT ![StreakTask] = EmptySession]

\* Economy.daily
EconomyDaily ==
    LET s0 == Loaded(EmptySession, StreakUser)
        user == get_user_by_id(s0, StreakUser)
        v == locals[StreakTask]
        seen == [v EXCEPT !.command = "claim", !.track = "daily",
                          !.at = Now.wall, !.before = user, !.tx_before = Len(transactions)]
    IN  /\ opCount < MaxStreakOps
        /\ opCount' = opCount + 1
        /\ StreakFrame
        /\ IF ~can_claim_daily(user)
           THEN /\ locals' = [locals EXCEPT ![StreakTask] =
                                 [seen EXCEPT !.success = FALSE]]
                /\ StreakCommit(s0)
           ELSE LET status == check_daily_streak_status(user)
                    r == update_daily_streak(s0, StreakUser)
                    s2 == update_user_balance(r.session, StreakUser, r.reward,
                                              "daily_reward", NoGame)
                    s3 == update_last_daily(s2, StreakUser)
                IN  /\ locals' = [locals EXCEPT ![StreakTask] =
                                     [seen EXCEPT !.success = TRUE,
                                                  !.is_broken = status[1],
                                                  !.new_streak = r.new_streak,
                                                  !.reward = r.reward,
                                                  !.is_personal_best = r.is_personal_best,
                                                  !.insured = v.saved["daily"],
                                                  !.saved["daily"] = -1]]
                    /\ StreakCommit(s3)

\* Economy.hourly
EconomyHourly ==
    LET s0 == Loaded(EmptySession, StreakUser)
        user == get_user_by_id(s0, StreakUser)
        v == locals[StreakTask]
        seen == [v EXCEPT !.command = "claim", !.track = "hourly",
                          !.at = Now.wall, !.before = user, !.tx_before = Len(transactions)]
    IN  /\ opCount < MaxStreakOps
        /\ opCount' = opCount + 1
        /\ StreakFrame
        /\ IF ~can_claim_hourly(user)
           THEN /\ locals' = [locals EXCEPT ![StreakTask] =
                                 [seen EXCEPT !.success = FALSE]]
                /\ StreakCommit(s0)
           ELSE LET status == check_hourly_streak_status(user)
                    r == update_hourly_streak(s0, StreakUser)
                    s2 == update_user_balance(r.session, StreakUser, r.reward,
                                              "hourly_reward", NoGame)
                    s3 == update_last_hourly(s2, StreakUser)
                IN  /\ locals' = [locals EXCEPT ![StreakTask] =
                                     [seen EXCEPT !.success = TRUE,
                                                  !.is_broken = status[1],
                                                  !.new_streak = r.new_streak,
                                                  !.reward = r.reward,
                                                  !.is_personal_best = r.is_personal_best,
                                                  !.insured = v.saved["hourly"],
                                                  !.saved["hourly"] = -1]]
                    /\ StreakCommit(s3)

\* Economy.streak_save(streak_type): the handler's own checks repeat those of
\* the purchase function on the same loaded row.
StreakSave(track) ==
    LET s0 == Loaded(EmptySession, StreakUser)
        user == get_user_by_id(s0, StreakUser)
        v == locals[StreakTask]
        r == IF track = "daily" THEN purchase_daily_streak_insurance(s0, StreakUser)
             ELSE purchase_hourly_streak_insurance(s0, StreakUser)
        status == IF track = "daily" THEN check_daily_streak_status(user)
                  ELSE check_hourly_streak_status(user)
        streak == IF track = "daily" THEN user.daily_streak ELSE user.hourly_streak
    IN  /\ opCount < MaxStreakOps
        /\ opCount' = opCount + 1
        /\ StreakFrame
        /\ locals' = [locals EXCEPT ![StreakTask] =
                         [v EXCEPT !.command = "streak_save", !.track = track,
                                   !.at = Now.wall,
                                   !.before = user, !.tx_before = Len(transactions),
                                   !.success = r.success,
                                   !.is_broken = status[1],
                                   !.saved[track] = IF r.success THEN streak ELSE @]]
        /\ StreakCommit(r.session)

StreakSaveDaily == StreakSave("daily")
StreakSaveHourly == StreakSave("hourly")

StreakNext ==
    \/ Tick
    \/ EconomyDaily
    \/ EconomyHourly
    \/ StreakSaveDaily
    \/ StreakSaveHourly

SpecStreak == StreakInit /\ [][StreakNext]_vars

----------------------------------------------------------------------------
(* Claims about the claim windows and the streaks *)

\* The reading of the local clock at the user's last claim on a track: the
\* column keeps the wall-clock reading of the value written.
ClaimedAt(track) ==
    IF track = "daily" THEN users[StreakUser].last_daily.wall
    ELSE users[StreakUser].last_hourly.wall

\* Start of the daily window that contains the local reading w.
PeriodStart(w) ==
    LET r == (w \div MinutesPerDay) * MinutesPerDay + DAILY_RESET_HOUR * MinutesPerHour
    IN  IF w < r THEN r - MinutesPerDay ELSE r

\* The last write of a track's timestamp was a claim, not an insurance purchase.
LastWriteWasClaim(track) ==
    /\ IF track = "daily" THEN users[StreakUser].last_daily # None
       ELSE users[StreakUser].last_hourly # None
    /\ locals[StreakTask].saved[track] = -1

\* C12: after a successful daily claim can_claim_daily is false until the
\* local time reaches the next 03:00 boundary and true from that boundary on
\* (a claim at 02:59 does not block a claim at 03:01 of the same day).
C12_DailyWindowBoundary ==
    LastWriteWasClaim("daily") =>
        (can_claim_daily(users[StreakUser])
            <=> Now.wall >= PeriodStart(ClaimedAt("daily")) + MinutesPerDay)

\* The streak and best-streak columns of a track in a user row.
StreakOf(row, track) ==
    IF track = "daily" THEN row.daily_streak ELSE row.hourly_streak
BestOf(row, track) ==
    IF track = "daily" THEN row.daily_streak_best ELSE row.hourly_streak_best

\* The last command was a successful claim on the track.
Claimed(track) ==
    /\ locals[StreakTask].command = "claim"
    /\ locals[StreakTask].track = track
    /\ locals[StreakTask].success

\* C13: a claim sets the streak to 1 when the status check reports the track
\* broken and to the previous streak + 1 otherwise, sets best to
\* max(best, new streak), and reports a personal best exactly when the new
\* streak exceeds the previous best.
C13_StreakAdvance ==
    \A track \in Tracks :
        Claimed(track) =>
            LET v == locals[StreakTask]
                new == StreakOf(users[StreakUser], track)
                old_best == BestOf(v.before, track)
            IN  /\ new = IF v.is_broken THEN 1 ELSE StreakOf(v.before, track) + 1
                /\ v.new_streak = new
                /\ BestOf(users[StreakUser], track)
                      = IF new > old_best THEN new ELSE old_best
                /\ v.is_personal_best <=> new > old_best

\* A claim on a broken hourly track that had reached 2: the streak restarts at
\* 1, the best stays 2 and no personal best is reported.
C13_Witness ==
    /\ Claimed("hourly")
    /\ locals[StreakTask].is_broken
    /\ locals[StreakTask].before.hourly_streak = 2
    /\ users[StreakUser].hourly_streak = 1
    /\ users[StreakUser].hourly_streak_best = 2
    /\ ~locals[StreakTask].is_personal_best

InsuranceCost(track) ==
    IF track = "daily" THEN DAILY_STREAK_INSURANCE_COST
    ELSE HOURLY_STREAK_INSURANCE_COST

\* The last command was an insurance purchase on the track.
SaveAttempted(track) ==
    /\ locals[StreakTask].command = "streak_save"
    /\ locals[StreakTask].track = track

\* C14: an insurance purchase on a track that is not broken, or by a user
\* whose balance is below the cost, fails and leaves the user's row (balance,
\* streak counts, last-claim timestamps) and the transactions unchanged.
C14_InsuranceRejected ==
    \A track \in Tracks :
        LET v == locals[StreakTask]
        IN  (SaveAttempted(track)
               /\ (~v.is_broken \/ v.before.balance < InsuranceCost(track)))
            => /\ ~v.success
               /\ users[StreakUser] = v.before
               /\ Len(transactions) = v.tx_before

\* A purchase on a broken daily track by a user who cannot pay is rejected.
C14_Witness ==
    /\ SaveAttempted("daily")
    /\ locals[StreakTask].is_broken
    /\ locals[StreakTask].before.balance < DAILY_STREAK_INSURANCE_COST
    /\ locals[StreakTask].before.daily_streak > 0
    /\ ~locals[StreakTask].success

InsuranceReason(track) ==
    IF track = "daily" THEN "daily_streak_insurance" ELSE "hourly_streak_insurance"

RewardFor(track, streak) ==
    IF track = "daily" THEN calculate_daily_reward(streak)
    ELSE calculate_hourly_reward(streak)

\* The state after a successful insurance purchase: the streak and the best
\* streak are unchanged, exactly one transaction of -cost was added and the
\* balance went down by the cost (no reward).
PurchaseEffect(track) ==
    LET v == locals[StreakTask]
    IN  (SaveAttempted(track) /\ v.success) =>
            /\ StreakOf(users[StreakUser], track) = StreakOf(v.before, track)
            /\ BestOf(users[StreakUser], track) = BestOf(v.before, track)
            /\ Len(transactions) = v.tx_before + 1
            /\ transactions[Len(transactions)]
                  = TxRow(StreakUser, -InsuranceCost(track), InsuranceReason(track), NoGame)
            /\ users[StreakUser].balance = v.before.balance - InsuranceCost(track)

\* The first successful claim after a purchase continues the insured streak.
ClaimContinues(track) ==
    LET v == locals[StreakTask]
    IN  /\ StreakOf(users[StreakUser], track) = v.insured + 1
        /\ v.reward = RewardFor(track, v.insured + 1)
        /\ users[StreakUser].balance = v.before.balance + v.reward

WindowStart(track) ==
    IF track = "daily" THEN current_period_start.wall ELSE current_hour_start.wall
WindowLength(track) ==
    IF track = "daily" THEN MinutesPerDay ELSE MinutesPerHour

CanClaim(track) ==
    IF track = "daily" THEN can_claim_daily(users[StreakUser])
    ELSE can_claim_hourly(users[StreakUser])

\* C16: right after a successful insurance purchase the rewritten last-claim
\* timestamp lies strictly after the start of the previous window, strictly
\* before the start of the current window and strictly before now, on both
\* tracks, and a claim is allowed.
C16_RestoredInsidePreviousWindow ==
    \A track \in Tracks :
        (SaveAttempted(track) /\ locals[StreakTask].success
           /\ Now.wall = locals[StreakTask].at) =>
            /\ ClaimedAt(track) > WindowStart(track) - WindowLength(track)
            /\ ClaimedAt(track) < WindowStart(track)
            /\ ClaimedAt(track) < Now.wall
            /\ CanClaim(track)

----------------------------------------------------------------------------
(* Specification SpecReward: the reward functions applied to a streak *)

MaxRewardStreak == 30
RewardStreaks == -2..MaxRewardStreak

RewardTask == "reward"
NotComputed == -1

RewardInit ==
    /\ users = << >>
    /\ transactions = << >>
    /\ games = << >>
    /\ participants = << >>
    /\ sess = (RewardTask :> EmptySession)
    /\ pc = (RewardTask :> "idle")
    /\ \E s \in RewardStreaks :
          locals = (RewardTask :> [streak |-> s, daily |-> NotComputed,
                                   hourly |-> NotComputed])
    /\ lockHolder = [k \in LockKeys |-> NoTask]
    /\ lockWaiters = [k \in LockKeys |-> << >>]
    /\ opCount = 0
    /\ clock = Epoch

RewardFrame ==
    UNCHANGED <<users, transactions, games, participants, sess, pc,
                lockHolder, lockWaiters, opCount, clock>>

\* reward = calculate_daily_reward(new_streak)
RewardDaily ==
    /\ locals[RewardTask].daily = NotComputed
    /\ locals' = [locals EXCEPT ![RewardTask].daily =
                     calculate_daily_reward(locals[RewardTask].streak)]
    /\ RewardFrame

\* reward = calculate_hourly_reward(new_streak)
RewardHourly ==
    /\ locals[RewardTask].hourly = NotComputed
    /\ locals' = [locals EXCEPT ![RewardTask].hourly =
                     calculate_hourly_reward(locals[RewardTask].streak)]
    /\ RewardFrame

RewardNext == RewardDaily \/ RewardHourly

SpecReward == RewardInit /\ [][RewardNext]_vars

\* C20: the daily reward is 10,000 + 1,000 x (s - 1) for 1 <= s <= 6 and
\* 20,000 for s >= 7; the hourly reward is 1,000 + 100 x (s - 1) for
\* 1 <= s <= 4 and 1,500 for s >= 5; s <= 0 is priced as s = 1; neither
\* reward decreases when s grows by one.
C20_RewardFormulas ==
    LET v == locals[RewardTask]
        s == IF v.streak <= 0 THEN 1 ELSE v.streak
    IN  /\ v.daily # NotComputed =>
              /\ v.daily = IF s >= 7 THEN 20000 ELSE 10000 + 1000 * (s - 1)
              /\ v.daily <= calculate_daily_reward(v.streak + 1)
        /\ v.hourly # NotComputed =>
              /\ v.hourly = IF s >= 5 THEN 1500 ELSE 1000 + 100 * (s - 1)
              /\ v.hourly <= calculate_hourly_reward(v.streak + 1)

\* Streak 6: the last daily step below the cap, and the capped hourly reward.
C20_Witness ==
    /\ locals[RewardTask].streak = 6
    /\ locals[RewardTask].daily = 15000
    /\ locals[RewardTask].hourly = 1500

----------------------------------------------------------------------------
(* utils/tier_system.py: progressive bet limits *)

XP_DIVISOR == 10
ENABLE_BET_LIMITS == TRUE
UNLIMITED_BET == 999999999

\* max_balance / max_xp of the highest tier (None in the source).
Unbounded == -1

TierTuple(n, bet, minb, maxb, minx, maxx) ==
    [tier_number |-> n, max_bet |-> bet, min_balance |-> minb, max_balance |-> maxb,
     min_xp |-> minx, max_xp |-> maxx]

TIER_DEFINITIONS ==
    << TierTuple(1, 5000, 0, 100000, 0, 5000),
       TierTuple(2, 15000, 100001, 300000, 5000, 20000),
       TierTuple(3, 40000, 300001, 750000, 20000, 75000),
       TierTuple(4, 100000, 750001, 2000000, 75000, 250000),
       TierTuple(5, 300000, 2000001, 5000000, 250000, 750000),
       TierTuple(6, 750000, 5000001, 10000000, 750000, 2000000),
       TierTuple(7, UNLIMITED_BET, 10000001, Unbounded, 2000000, Unbounded) >>

\* The test of one loop iteration of get_balance_tier.
BalanceInTier(balance, t) ==
    IF t.max_balance = Unbounded THEN balance >= t.min_balance
    ELSE t.min_balance <= balance /\ balance <= t.max_balance

\* The test of one loop iteration of get_level_tier.
XpInTier_closed_ceiling(xp, t) ==
    IF t.max_xp = Unbounded THEN xp >= t.min_xp
    ELSE t.min_xp <= xp /\ xp <= t.max_xp

XpInTier(xp, t) ==
    IF t.max_xp = Unbounded THEN xp >= t.min_xp
    ELSE t.min_xp <= xp /\ xp < t.max_xp

\* The first tier of the list that passes the test, the lowest tier if none does.
FirstTier(matches) ==
    IF matches = {} THEN TIER_DEFINITIONS[1]
    ELSE TIER_DEFINITIONS[CHOOSE i \in matches : \A j \in matches : i <= j]

get_balance_tier(balance) ==
    FirstTier({i \in DOMAIN TIER_DEFINITIONS : BalanceInTier(balance, TIER_DEFINITIONS[i])})

get_level_tier(xp) ==
    FirstTier({i \in DOMAIN TIER_DEFINITIONS : XpInTier(xp, TIER_DEFINITIONS[i])})

get_max_bet_limit(balance, xp) ==
    IF ~ENABLE_BET_LIMITS THEN UNLIMITED_BET
    ELSE LET b == get_balance_tier(balance).max_bet
             l == get_level_tier(xp).max_bet
         IN  IF b < l THEN b ELSE l

calculate_xp_reward(wager) == wager \div XP_DIVISOR

----------------------------------------------------------------------------
(* Specification SpecTier: the bet limit of a balance and an XP value *)

TierTask == "tier"

\* Every threshold of the two ladders with its neighbours, and an overdrawn
\* balance.
BalanceSamples ==
    {-1, 0, 1}
    \cup UNION {{TIER_DEFINITIONS[i].min_balance - 1, TIER_DEFINITIONS[i].min_balance,
                 TIER_DEFINITIONS[i].min_balance + 1} : i \in 2..Len(TIER_DEFINITIONS)}
XpSamples ==
    {0, 1}
    \cup UNION {{TIER_DEFINITIONS[i].min_xp - 1, TIER_DEFINITIONS[i].min_xp,
                 TIER_DEFINITIONS[i].min_xp + 1} : i \in 2..Len(TIER_DEFINITIONS)}

TierInit ==
    /\ users = << >>
    /\ transactions = << >>
    /\ games = << >>
    /\ participants = << >>
    /\ sess = (TierTask :> EmptySession)
    /\ pc = (TierTask :> "idle")
    /\ \E b \in BalanceSamples, x \in XpSamples :
          locals = (TierTask :> [balance |-> b, xp |-> x, max_bet |-> NotComputed,
                                 balance_tier |-> 0, level_tier |-> 0])
    /\ lockHolder = [k \in LockKeys |-> NoTask]
    /\ lockWaiters = [k \in LockKeys |-> << >>]
    /\ opCount = 0
    /\ clock = Epoch

\* max_bet = get_max_bet_limit(user.balance, user.experience_points), with the
\* two tiers it is the minimum of.
TierLookup ==
    /\ locals[TierTask].max_bet = NotComputed
    /\ locals' = [locals EXCEPT
                     ![TierTask].max_bet =
                         get_max_bet_limit(locals[TierTask].balance, locals[TierTask].xp),
                     ![TierTask].balance_tier =
                         get_balance_tier(locals[TierTask].balance).tier_number,
                     ![TierTask].level_tier =
                         get_level_tier(locals[TierTask].xp).tier_number]
    /\ UNCHANGED <<users, transactions, games, participants, sess, pc,
                   lockHolder, lockWaiters, opCount, clock>>

TierNext == TierLookup

SpecTier == TierInit /\ [][TierNext]_vars

\* The ceiling of a ladder for a value: the bet limit of the first step whose
\* upper end the value does not exceed.
BalanceCeiling(b) ==
    IF b <= 100000 THEN 5000
    ELSE IF b <= 300000 THEN 15000
    ELSE IF b <= 750000 THEN 40000
    ELSE IF b <= 2000000 THEN 100000
    ELSE IF b <= 5000000 THEN 300000
    ELSE IF b <= 10000000 THEN 750000
    ELSE 999999999

XpCeiling(x) ==
    IF x < 5000 THEN 5000
    ELSE IF x < 20000 THEN 15000
    ELSE IF x < 75000 THEN 40000
    ELSE IF x < 250000 THEN 100000
    ELSE IF x < 750000 THEN 300000
    ELSE IF x < 2000000 THEN 750000
    ELSE 999999999

\* C19: get_max_bet_limit is the minimum of the balance-ladder ceiling and the
\* XP-ladder ceiling, and no value falls into two tiers of a ladder (a value
\* from 0 up falls into exactly one); thresholds included.
C19_MaxBetIsMinOfCeilings ==
    LET v == locals[TierTask]
        btiers == {i \in DOMAIN TIER_DEFINITIONS :
                      BalanceInTier(v.balance, TIER_DEFINITIONS[i])}
        xtiers == {i \in DOMAIN TIER_DEFINITIONS : XpInTier(v.xp, TIER_DEFINITIONS[i])}
    IN  v.max_bet # NotComputed =>
            /\ v.max_bet = IF BalanceCeiling(v.balance) < XpCeiling(v.xp)
                           THEN BalanceCeiling(v.balance) ELSE XpCeiling(v.xp)
            /\ Cardinality(btiers) <= 1
            /\ Cardinality(xtiers) = 1
            /\ v.balance >= 0 => btiers = {v.balance_tier}
            /\ xtiers = {v.level_tier}

\* Balance 100,001 is in tier 2 and XP 5,000 is in tier 2: the limit is 15,000.
C19_Witness ==
    /\ locals[TierTask].balance = 100001
    /\ locals[TierTask].xp = 5000
    /\ locals[TierTask].balance_tier = 2
    /\ locals[TierTask].level_tier = 2
    /\ locals[TierTask].max_bet = 15000

----------------------------------------------------------------------------
(* Wagers: bet validation, settlement and experience points *)

\* config.py
SLOT_PAYOUT_FIVE_JACKPOT == 777
SLOT_PAYOUT_FIVE_HIGH == 20
SLOT_PAYOUT_FIVE_MID == 10
SLOT_PAYOUT_FOUR_MATCH == 5
SLOT_PAYOUT_THREE_MATCH == 2
SLOT_PAYOUT_DEATH == -3
ROULETTE_PAYOUT_RED_BLACK == 2
ROULETTE_PAYOUT_GREEN == 14

\* utils/bet_validator.py: is the bet accepted?
validate_bet(user, bet_amount) ==
    IF ~ENABLE_BET_LIMITS THEN bet_amount > 0 /\ bet_amount <= user.balance
    ELSE /\ bet_amount > 0
         /\ bet_amount <= user.balance
         /\ bet_amount <= get_max_bet_limit(user.balance, user.experience_points)

\* crud.add_user_xp: user.experience_points += xp_amount; user.level = calculate_level(...)
add_user_xp(s, u, xp_amount) ==
    LET old == get_user_by_id(s, u)
        xp == old.experience_points + xp_amount
        new == [old EXCEPT !.experience_points = xp,
                           !.level = get_level_tier(xp).tier_number]
    IN  [s EXCEPT !.cache   = (u :> new) @@ @,
                  !.written = [@ EXCEPT ![u] = @ \cup ChangedCols(old, new)]]

\* config.SLOT_SYMBOLS: cherry, lemon, star, diamond and skull, each written
\* as the code point of the one character the string consists of.
SLOT_SYMBOLS == <<"U+1F352", "U+1F34B", "U+2B50", "U+1F48E", "U+1F480">>

\* The string literals _calculate_payout compares the most common symbol
\* with, written as the code points of their characters.
SkullLiteral == "U+00F0 U+0178 U+2019 U+20AC"
DiamondLiteral == "U+00F0 U+0178 U+2019 U+017D"
StarLiteral == "U+00E2 U+00AD"
LemonLiteral == "U+00F0 U+0178 U+2039"
CherryLiteral == "U+00F0 U+0178 U+2019"

SlotReels == 5

\* Slots._calculate_payout
calculate_payout(symbols, bet) ==
    LET symbol_counts(sym) == Cardinality({i \in 1..Len(symbols) : symbols[i] = sym})
        max_count == MaxOf({symbol_counts(symbols[i]) : i \in 1..Len(symbols)})
        first == MinOf({i \in 1..Len(symbols) : symbol_counts(symbols[i]) = max_count})
        most_common_symbol == symbols[first]
    IN  IF max_count = 5
        THEN IF most_common_symbol = SkullLiteral THEN (-bet) * SLOT_PAYOUT_DEATH
             ELSE IF most_common_symbol = DiamondLiteral THEN bet * SLOT_PAYOUT_FIVE_JACKPOT
             ELSE IF most_common_symbol = StarLiteral THEN bet * SLOT_PAYOUT_FIVE_HIGH
             ELSE IF most_common_symbol \in {LemonLiteral, CherryLiteral}
                  THEN bet * SLOT_PAYOUT_FIVE_MID
             ELSE -bet
        ELSE IF max_count = 4 THEN bet * SLOT_PAYOUT_FOUR_MATCH
        ELSE IF max_count = 3 THEN bet * SLOT_PAYOUT_THREE_MATCH
        ELSE -bet

\* Reels of each kind of result, for the runs that spin by kind.
SlotOutcomes == {"death", "jackpot", "five_high", "five_mid", "four", "three", "none"}
ReelsOf(outcome) ==
    LET five(k) == [i \in 1..SlotReels |-> SLOT_SYMBOLS[k]]
    IN  CASE outcome = "death"     -> five(5)
          [] outcome = "jackpot"   -> five(4)
          [] outcome = "five_high" -> five(3)
          [] outcome = "five_mid"  -> five(2)
          [] outcome = "four"      -> [five(1) EXCEPT ![5] = SLOT_SYMBOLS[2]]
          [] outcome = "three"     -> [five(1) EXCEPT ![4] = SLOT_SYMBOLS[2], ![5] = SLOT_SYMBOLS[3]]
          [] OTHER                 -> SLOT_SYMBOLS

SlotPayout(outcome, bet) == calculate_payout(ReelsOf(outcome), bet)

\* Roulette._calculate_payout, by whether the choice matched and the colour.
RouletteOutcomes == {"green", "match", "miss"}
RoulettePayout(outcome, bet) ==
    CASE outcome = "green" -> bet * ROULETTE_PAYOUT_GREEN
      [] outcome = "match" -> bet * ROULETTE_PAYOUT_RED_BLACK
      [] OTHER             -> -bet

----------------------------------------------------------------------------
(* Specification SpecWager: one registered user and one unregistered caller
   play slots and solo roulette *)

MaxWagerOps == 3

WagerTask == "wager"
Callers == {1, 2}                \* account 2 is not registered
WagerBets == {-1, 0, 5, 100, 6000, 60000}
WagerGames == {"w1", "w2"}

\* What the last command was given, saw and did.
WagerLocals ==
    [command |-> "none", user |-> 1, bet |-> 0, accepted |-> FALSE, settled |-> FALSE,
     users_before |-> << >>, tx_before |-> 0, games_before |-> << >>,
     participants_before |-> << >>]

WagerInit ==
    /\ users = (1 :> PlayerRow(STARTING_BALANCE))
    /\ transactions = <<TxRow(1, STARTING_BALANCE, "initial_grant", NoGame)>>
    /\ games = << >>
    /\ participants = << >>
    /\ sess = (WagerTask :> EmptySession)
    /\ pc = (WagerTask :> "idle")
    /\ locals = (WagerTask :> WagerLocals)
    /\ lockHolder = [k \in LockKeys |-> NoTask]
    /\ lockWaiters = [k \in LockKeys |-> << >>]
    /\ opCount = 0
    /\ clock = Epoch

WagerFrame == UNCHANGED <<sess, pc, lockHolder, lockWaiters, clock>>

Seen(command, u, bet) ==
    [command |-> command, user |-> u, bet |-> bet, accepted |-> FALSE,
     settled |-> FALSE, users_before |-> users, tx_before |-> Len(transactions),
     games_before |-> games, participants_before |-> participants]

\* Slots.slots
SlotsCommand ==
    \E u \in Callers, bet \in WagerBets, outcome \in SlotOutcomes :
        LET seen == Seen("slots", u, bet)
            rejected == bet <= 0 \/ u \notin DOMAIN users \/ users[u].balance < bet
            payout == SlotPayout(outcome, bet)
            s1 == update_user_balance(Loaded(EmptySession, u), u, payout,
                                      IF payout > 0 THEN "slots_win" ELSE "slots_loss",
                                      NoGame)
            out == get_session_exit(s1, FALSE)
        IN  /\ opCount < MaxWagerOps
            /\ opCount' = opCount + 1
            /\ WagerFrame
            /\ IF rejected
               THEN /\ locals' = [locals EXCEPT ![WagerTask] = seen]
                    /\ UNCHANGED <<users, transactions, games, participants>>
               ELSE /\ locals' = [locals EXCEPT ![WagerTask] =
                                     [seen EXCEPT !.accepted = TRUE, !.settled = TRUE]]
                    /\ users' = out[1]
                    /\ transactions' = out[2]
                    /\ UNCHANGED <<games, participants>>

\* Roulette.roulette: the command validates the bet and opens a session.
RouletteCommand ==
    \E u \in Callers, bet \in WagerBets, g \in WagerGames :
        LET seen == Seen("roulette", u, bet)
            rejected == \/ bet <= 0
                        \/ u \notin DOMAIN users
                        \/ ~validate_bet(users[u], bet)
                        \/ get_active_game_for_user(u) # {}
        IN  /\ opCount < MaxWagerOps
            /\ opCount' = opCount + 1
            /\ g \notin DOMAIN games
            /\ WagerFrame
            /\ UNCHANGED <<users, transactions>>
            /\ IF rejected
               THEN /\ locals' = [locals EXCEPT ![WagerTask] = seen]
                    /\ UNCHANGED <<games, participants>>
               ELSE /\ locals' = [locals EXCEPT ![WagerTask] =
                                     [seen EXCEPT !.accepted = TRUE]]
                    /\ games' = (g :> GameRow("roulette", "pending", u, "channel", bet))
                                    @@ games
                    /\ participants' = (g :> <<ParticipantRow(u, bet)>>) @@ participants

\* Roulette._run_solo_game: the spin is settled under the player's lock.
RouletteSolo ==
    \E g \in DOMAIN games, outcome \in RouletteOutcomes :
        LET u == participants[g][1].user_id
            bet == games[g].amount
            payout == RoulettePayout(outcome, bet)
            s0 == update_game_status(Loaded(EmptySession, u), g, "active")
            s1 == update_user_balance(s0, u, payout,
                                      IF payout > 0 THEN "roulette_win" ELSE "roulette_loss",
                                      g)
            s2 == add_user_xp(s1, u, calculate_xp_reward(bet))
            s3 == update_game_status(s2, g, "completed")
            out == get_session_exit(s3, FALSE)
        IN  /\ games[g].type = "roulette"
            /\ games[g].status = "pending"
            /\ locals' = [locals EXCEPT ![WagerTask] =
                             [Seen("roulette_spin", u, bet) EXCEPT !.accepted = TRUE,
                                                                   !.settled = TRUE]]
            /\ users' = out[1]
            /\ transactions' = out[2]
            /\ games' = out[3]
            /\ participants' = [participants EXCEPT ![g][1].is_winner = SqlBool(payout > 0)]
            /\ UNCHANGED opCount
            /\ WagerFrame

WagerNext == SlotsCommand \/ RouletteCommand \/ RouletteSolo

SpecWager == WagerInit /\ [][WagerNext]_vars

\* C17: a settled wager of X, in slots or roulette and won or lost, raises
\* the bettor's experience points by exactly floor(X / 10).
C17_XpPerWager ==
    LET v == locals[WagerTask]
    IN  v.settled =>
            users[v.user].experience_points
                = v.users_before[v.user].experience_points + (v.bet \div 10)

\* The bet is one the games must refuse: not positive, from an unregistered
\* caller, above the balance or above the effective max bet.
InvalidWager(v) ==
    \/ v.bet <= 0
    \/ v.user \notin DOMAIN v.users_before
    \/ v.bet > v.users_before[v.user].balance
    \/ v.bet > get_max_bet_limit(v.users_before[v.user].balance,
                                 v.users_before[v.user].experience_points)

\* C18: a wager that is not positive, exceeds the balance, exceeds the
\* effective max bet or comes from an unregistered user is rejected: no
\* session, no participant, and no change of balance, XP or transactions.
C18_InvalidWagerRejected ==
    LET v == locals[WagerTask]
    IN  (v.command \in {"slots", "roulette"} /\ InvalidWager(v)) =>
            /\ ~v.accepted
            /\ users = v.users_before
            /\ Len(transactions) = v.tx_before
            /\ games = v.games_before
            /\ participants = v.participants_before

----------------------------------------------------------------------------
(* Further properties of the ledger under SpecLedger *)

\* The effect of one update_user_balance call on the unit of work: the last
\* pending Transaction row names the account and the amount.
BalanceUpdateEffect ==
    LET before == sess[LedgerTask]
        after == sess'[LedgerTask]
        t == after.tx[Len(after.tx)]
        old == get_user_by_id(before, t.user_id)
        new == after.cache[t.user_id]
    IN  /\ after.tx = Append(before.tx, t)
        /\ t.reason = "admin_adjustment"
        /\ new.balance = old.balance + t.amount
        /\ new.lifetime_earned
              = old.lifetime_earned + (IF t.amount > 0 THEN t.amount ELSE 0)
        /\ new.lifetime_lost
              = old.lifetime_lost + (IF t.amount < 0 THEN -t.amount ELSE 0)
        /\ \A c \in DOMAIN old \ {"balance", "lifetime_earned", "lifetime_lost"} :
              new[c] = old[c]
        /\ \A o \in VisibleAccounts(before) \ {t.user_id} :
              o \in DOMAIN after.cache => after.cache[o] = get_user_by_id(before, o)
        /\ VisibleAccounts(after) = VisibleAccounts(before)
        /\ users' = users
        /\ transactions' = transactions

\* The call for an unknown id raises and changes nothing.
UnknownAccountEffect ==
    /\ pc'[LedgerTask] = "raised"
    /\ sess' = sess
    /\ users' = users
    /\ transactions' = transactions

net_profit(row) == row.lifetime_earned - row.lifetime_lost

\* C28: for every account, committed or as the running unit of work sees it,
\* lifetime_earned - lifetime_lost equals the sum of the signed amounts of the
\* account's transactions, after any sequence of ledger mutations including
\* an admin balance reset.
C28_NetProfitIsSumOfTransactions ==
    /\ \A u \in DOMAIN users :
          net_profit(users[u]) = SumAmounts(TxOf(transactions, u))
    /\ \A u \in VisibleAccounts(sess[LedgerTask]) :
          net_profit(get_user_by_id(sess[LedgerTask], u))
              = SumAmounts(TxOf(transactions \o sess[LedgerTask].tx, u))

----------------------------------------------------------------------------
(* utils/card_utils.py: cards, hands and the comparison with the dealer *)

BLACKJACK_MIN_BET == 100
BLACKJACK_DEALER_STAND_VALUE == 17

\* Deck.SUITS: how many cards of one rank a single deck holds.
SuitsPerRank == 4

\* The ranks the runs deal; Deck.RANKS has thirteen.
Ranks == {"A", "5", "K"}

\* Card.value
CardValue(rank) ==
    IF rank = "A" THEN 11
    ELSE IF rank \in {"J", "Q", "K"} THEN 10
    ELSE 5

Hand(bet) == [cards |-> << >>, bet |-> bet, is_doubled |-> FALSE, is_stand |-> FALSE]

add_card(hand, rank) == [hand EXCEPT !.cards = Append(@, rank)]

RECURSIVE SumCardValues(_)
SumCardValues(cards) ==
    IF cards = << >> THEN 0 ELSE CardValue(Head(cards)) + SumCardValues(Tail(cards))

CountRank(cards, rank) == Cardinality({i \in 1..Len(cards) : cards[i] = rank})

\* The loop of Hand.value: an ace counts 1 instead of 11 while the total is
\* above 21.
RECURSIVE AdjustForAces(_, _)
AdjustForAces(total, aces) ==
    IF total > 21 /\ aces > 0 THEN AdjustForAces(total - 10, aces - 1) ELSE total

value(hand) == AdjustForAces(SumCardValues(hand.cards), CountRank(hand.cards, "A"))

is_blackjack(hand) == Len(hand.cards) = 2 /\ value(hand) = 21

is_bust(hand) == value(hand) > 21

can_double(hand) == Len(hand.cards) = 2 /\ ~hand.is_doubled

\* calculate_winner: the result and twice the payout multiplier (2.5 is 5).
calculate_winner_dealer_bust_first(player_hand, dealer_hand) ==
    IF is_bust(dealer_hand) THEN <<"win", 4>>
    ELSE IF is_bust(player_hand) THEN <<"loss", 0>>
    ELSE IF is_blackjack(player_hand)
         THEN IF is_blackjack(dealer_hand) THEN <<"push", 2>> ELSE <<"blackjack", 5>>
    ELSE IF value(player_hand) > value(dealer_hand) THEN <<"win", 4>>
    ELSE IF value(player_hand) < value(dealer_hand) THEN <<"loss", 0>>
    ELSE <<"push", 2>>

calculate_winner(player_hand, dealer_hand) ==
    IF is_bust(player_hand) THEN <<"loss", 0>>
    ELSE IF is_blackjack(player_hand)
         THEN IF is_blackjack(dealer_hand) THEN <<"push", 2>> ELSE <<"blackjack", 5>>
    ELSE IF is_bust(dealer_hand) THEN <<"win", 4>>
    ELSE IF value(player_hand) > value(dealer_hand) THEN <<"win", 4>>
    ELSE IF value(player_hand) < value(dealer_hand) THEN <<"loss", 0>>
    ELSE <<"push", 2>>

----------------------------------------------------------------------------
(* cogs/blackjack.py: one game from the deal to the settlement *)

\* int(hand.bet * multiplier) - hand.bet
BlackjackProfit(hand, dealer_hand) ==
    ((hand.bet * calculate_winner(hand, dealer_hand)[2]) \div 2) - hand.bet

\* The loop of _finalize_game over player_ids, in one session.
RECURSIVE FinalizePlayers(_, _, _, _, _)
FinalizePlayers(s, ids, hands, dealer_hand, g) ==
    IF ids = << >> THEN s
    ELSE LET p == Head(ids)
             profit == BlackjackProfit(hands[p], dealer_hand)
             s0 == Loaded(s, p)
             s1 == IF profit # 0
                   THEN update_user_balance(s0, p, profit,
                            IF profit > 0 THEN "blackjack_win" ELSE "blackjack_loss", g)
                   ELSE s0
         IN  FinalizePlayers(s1, Tail(ids), hands, dealer_hand, g)

\* The loop of _handle_dealer_blackjack over player_ids, in one session.
RECURSIVE DealerBlackjackPlayers(_, _, _, _)
DealerBlackjackPlayers(s, ids, hands, g) ==
    IF ids = << >> THEN s
    ELSE LET p == Head(ids)
             s0 == Loaded(s, p)
             s1 == IF is_blackjack(hands[p]) THEN s0
                   ELSE update_user_balance(s0, p, -hands[p].bet, "blackjack_loss", g)
         IN  DealerBlackjackPlayers(s1, Tail(ids), hands, g)

\* update_participant_result for every player of the game.
ParticipantResults(rows, won) ==
    [i \in 1..Len(rows) |-> [rows[i] EXCEPT !.is_winner = SqlBool(won[rows[i].user_id])]]

----------------------------------------------------------------------------
(* Specification SpecBlackjack: games of one or two players against the dealer *)

MaxBjHits == 1

BjTask == "blackjack"
BjGame == "b1"
\* The games the runs play: the players in join order, and the bet.
BjTables ==
    {<<<<1>>, BLACKJACK_MIN_BET>>, <<<<1>>, BLACKJACK_MIN_BET + 1>>,
     <<<<1, 2>>, BLACKJACK_MIN_BET + 1>>}

\* Cards of a rank held by the hands hs.
Dealt(hs, rank) ==
    LET RECURSIVE Total(_)
        Total(S) == IF S = {} THEN 0
                    ELSE LET h == CHOOSE x \in S : TRUE
                         IN  CountRank(h[2], rank) + Total(S \ {h})
    IN  Total(hs)

\* The hands on the table as <<owner, cards>> pairs.
Table(l) ==
    {<<p, l.hands[p].cards>> : p \in DOMAIN l.hands} \cup {<<0, l.dealer.cards>>}

\* Deck.deal can return the rank: the single deck still holds a card of it.
CanDeal(l, rank) == Dealt(Table(l), rank) < SuitsPerRank

\* The first player from position i on who has no natural blackjack; the
\* turn loop of _run_game skips the others.
RECURSIVE NextTurn(_, _, _)
NextTurn(ids, hands, i) ==
    IF i > Len(ids) THEN i
    ELSE IF is_blackjack(hands[ids[i]]) THEN NextTurn(ids, hands, i + 1)
    ELSE i

AfterTurn(l, i) == IF i > Len(l.player_ids) THEN "dealer" ELSE "players"

BjInit ==
    \E t \in BjTables : LET ids == t[1]  bet == t[2] IN
        /\ users = [u \in SeqRange(ids) |-> UserRow(STARTING_BALANCE, STARTING_BALANCE, 0)]
        /\ transactions = [i \in 1..Len(ids) |->
                              TxRow(ids[i], STARTING_BALANCE, "initial_grant", NoGame)]
        /\ games = (BjGame :> GameRow("blackjack", "pending", ids[1], "channel", bet))
        /\ participants = (BjGame :> [i \in 1..Len(ids) |-> ParticipantRow(ids[i], bet)])
        /\ sess = (BjTask :> EmptySession)
        /\ pc = (BjTask :> "pending")
        /\ locals = (BjTask :> [player_ids |-> ids,
                                hands |-> [p \in SeqRange(ids) |-> Hand(bet)],
                                dealer |-> Hand(0),
                                turn |-> 1,
                                hits |-> 0])
        /\ lockHolder = [k \in LockKeys |-> NoTask]
        /\ lockWaiters = [k \in LockKeys |-> << >>]
        /\ opCount = 0
        /\ clock = Epoch

BjFrame == UNCHANGED <<sess, lockHolder, lockWaiters, opCount, clock>>

\* _run_game up to the check for a dealer blackjack: the session becomes
\* active and _deal_initial_cards deals two cards to every hand.
BjDeal ==
    \E ph \in [SeqRange(locals[BjTask].player_ids) -> Ranks \X Ranks], dh \in Ranks \X Ranks :
        LET l == locals[BjTask]
            bet_amount == participants[BjGame][1].bet_amount
            dealt == [l EXCEPT
                        !.hands = [p \in DOMAIN ph |->
                                     add_card(add_card(Hand(bet_amount), ph[p][1]), ph[p][2])],
                        !.dealer = add_card(add_card(Hand(0), dh[1]), dh[2])]
            first == NextTurn(l.player_ids, dealt.hands, 1)
            out == get_session_exit(update_game_status(EmptySession, BjGame, "active"), FALSE)
        IN  /\ pc[BjTask] = "pending"
            /\ \A r \in Ranks : Dealt(Table(dealt), r) <= SuitsPerRank
            /\ games' = out[3]
            /\ locals' = [locals EXCEPT ![BjTask] = [dealt EXCEPT !.turn = first]]
            /\ pc' = [pc EXCEPT ![BjTask] =
                         IF is_blackjack(dealt.dealer) THEN "dealer_blackjack"
                         ELSE AfterTurn(l, first)]
            /\ UNCHANGED <<users, transactions, participants>>
            /\ BjFrame

\* _player_turn, the hit reaction; the runs bound the hits of one game.
BjHit ==
    \E r \in Ranks :
        LET l == locals[BjTask]
            p == l.player_ids[l.turn]
            hand == add_card(l.hands[p], r)
            hands == [l.hands EXCEPT ![p] = hand]
            next == IF is_bust(hand) THEN NextTurn(l.player_ids, hands, l.turn + 1)
                    ELSE l.turn
        IN  /\ pc[BjTask] = "players"
            /\ l.hits < MaxBjHits
            /\ CanDeal(l, r)
            /\ locals' = [locals EXCEPT ![BjTask] =
                             [l EXCEPT !.hands = hands, !.turn = next, !.hits = @ + 1]]
            /\ pc' = [pc EXCEPT ![BjTask] = AfterTurn(l, next)]
            /\ UNCHANGED <<users, transactions, games, participants>>
            /\ BjFrame

\* _player_turn, the stand reaction and the automatic stand on a timeout.
BjStand ==
    LET l == locals[BjTask]
        p == l.player_ids[l.turn]
        hands == [l.hands EXCEPT ![p].is_stand = TRUE]
        next == NextTurn(l.player_ids, hands, l.turn + 1)
    IN  /\ pc[BjTask] = "players"
        /\ locals' = [locals EXCEPT ![BjTask] = [l EXCEPT !.hands = hands, !.turn = next]]
        /\ pc' = [pc EXCEPT ![BjTask] = AfterTurn(l, next)]
        /\ UNCHANGED <<users, transactions, games, participants>>
        /\ BjFrame

\* _player_turn, the double-down reaction.
BjDouble ==
    \E r \in Ranks :
        LET l == locals[BjTask]
            p == l.player_ids[l.turn]
            hand == [add_card(l.hands[p], r) EXCEPT !.is_doubled = TRUE,
                                                    !.bet = l.hands[p].bet * 2,
                                                    !.is_stand = TRUE]
            hands == [l.hands EXCEPT ![p] = hand]
            next == NextTurn(l.player_ids, hands, l.turn + 1)
        IN  /\ pc[BjTask] = "players"
            /\ can_double(l.hands[p])
            /\ CanDeal(l, r)
            /\ locals' = [locals EXCEPT ![BjTask] = [l EXCEPT !.hands = hands, !.turn = next]]
            /\ pc' = [pc EXCEPT ![BjTask] = AfterTurn(l, next)]
            /\ UNCHANGED <<users, transactions, games, participants>>
            /\ BjFrame

\* _dealer_turn: the dealer draws while below the stand value.
BjDealerHit ==
    \E r \in Ranks :
        LET l == locals[BjTask]
        IN  /\ pc[BjTask] = "dealer"
            /\ value(l.dealer) < BLACKJACK_DEALER_STAND_VALUE
            /\ CanDeal(l, r)
            /\ locals' = [locals EXCEPT ![BjTask] = [l EXCEPT !.dealer = add_card(@, r)]]
            /\ UNCHANGED <<users, transactions, games, participants, pc>>
            /\ BjFrame

\* _finalize_game
BjFinalize ==
    LET l == locals[BjTask]
        s1 == FinalizePlayers(EmptySession, l.player_ids, l.hands, l.dealer, BjGame)
        out == get_session_exit(update_game_status(s1, BjGame, "completed"), FALSE)
        won == [p \in DOMAIN l.hands |-> BlackjackProfit(l.hands[p], l.dealer) > 0]
    IN  /\ pc[BjTask] = "dealer"
        /\ value(l.dealer) >= BLACKJACK_DEALER_STAND_VALUE
        /\ users' = out[1]
        /\ transactions' = out[2]
        /\ games' = out[3]
        /\ participants' = [participants EXCEPT
                               ![BjGame] = ParticipantResults(@, won)]
        /\ pc' = [pc EXCEPT ![BjTask] = "done"]
        /\ UNCHANGED locals
        /\ BjFrame

\* _handle_dealer_blackjack
BjHandleDealerBlackjack ==
    LET l == locals[BjTask]
        s1 == DealerBlackjackPlayers(EmptySession, l.player_ids, l.hands, BjGame)
        out == get_session_exit(update_game_status(s1, BjGame, "completed"), FALSE)
        won == [p \in DOMAIN l.hands |-> is_blackjack(l.hands[p])]
    IN  /\ pc[BjTask] = "dealer_blackjack"
        /\ users' = out[1]
        /\ transactions' = out[2]
        /\ games' = out[3]
        /\ participants' = [participants EXCEPT
                               ![BjGame] = ParticipantResults(@, won)]
        /\ pc' = [pc EXCEPT ![BjTask] = "done"]
        /\ UNCHANGED locals
        /\ BjFrame

BjNext ==
    \/ BjDeal
    \/ BjHit
    \/ BjStand
    \/ BjDouble
    \/ BjDealerHit
    \/ BjFinalize
    \/ BjHandleDealerBlackjack

SpecBlackjack == BjInit /\ [][BjNext]_vars

\* What a settled game did to a player: the change of the balance and the
\* transactions recorded for the game.
BjDelta(p) == users[p].balance - STARTING_BALANCE
BjTransactions(p) == TxOfGame(TxOf(transactions, p), BjGame)

\* C22: in a settled blackjack game, for every player: a bust hand loses
\* the (possibly doubled) bet even when the dealer also busts; a two-card 21
\* against a dealer without blackjack gains floor(1.5 x bet); any other win
\* gains exactly the bet; a loss loses exactly the bet; a push (equal values,
\* or both naturals) changes no balance and records no transaction.
C22_BlackjackSettlement ==
    pc[BjTask] = "done" =>
        \A p \in DOMAIN locals[BjTask].hands :
            LET hand == locals[BjTask].hands[p]
                dealer == locals[BjTask].dealer
                natural == Len(hand.cards) = 2 /\ value(hand) = 21
                dealer_natural == Len(dealer.cards) = 2 /\ value(dealer) = 21
            IN  IF value(hand) > 21 THEN BjDelta(p) = -hand.bet
                ELSE IF natural /\ ~dealer_natural THEN BjDelta(p) = (3 * hand.bet) \div 2
                ELSE IF natural /\ dealer_natural
                     THEN BjDelta(p) = 0 /\ BjTransactions(p) = << >>
                ELSE IF value(dealer) > 21 \/ value(hand) > value(dealer)
                     THEN BjDelta(p) = hand.bet
                ELSE IF value(hand) < value(dealer) \/ dealer_natural
                     THEN BjDelta(p) = -hand.bet
                ELSE BjDelta(p) = 0 /\ BjTransactions(p) = << >>

\* A doubled hand that bust against a dealer who bust as well, settled.
C22_Witness ==
    /\ pc[BjTask] = "done"
    /\ \E p \in DOMAIN locals[BjTask].hands :
          /\ locals[BjTask].hands[p].is_doubled
          /\ value(locals[BjTask].hands[p]) > 21
          /\ value(locals[BjTask].dealer) > 21
          /\ BjDelta(p) = -2 * participants[BjGame][1].bet_amount

----------------------------------------------------------------------------
(* cogs/animal_race.py: one race from the join window to the settlement *)

RACE_MIN_BET == 100

\* config.RACE_RACERS, by name; each of them can be first over the line.
RACE_RACERS == {"Turtle", "Hare", "Chicken", "Dino", "Kubica"}

MaxRacePlayers == 3

RaceTask == "race"
RaceGame == "r1"
RaceBets == {RACE_MIN_BET, RACE_MIN_BET + 1}
RacePlayers == 1..MaxRacePlayers

\* racer_choices of the game's data: the racer each participant backed.
NoChoices == [u \in {} |-> "Turtle"]

RaceInit ==
    \E bet \in RaceBets :
        /\ users = [u \in RacePlayers |-> PlayerRow(STARTING_BALANCE)]
        /\ transactions = [u \in RacePlayers |->
                              TxRow(u, STARTING_BALANCE, "initial_grant", NoGame)]
        /\ games = (RaceGame :> GameRow("animal_race", "pending", 1, "channel", bet))
        /\ participants = (RaceGame :> << >>)
        /\ sess = (RaceTask :> EmptySession)
        /\ pc = (RaceTask :> "joining")
        /\ locals = (RaceTask :> [racer_choices |-> NoChoices, winner |-> "none"])
        /\ lockHolder = [k \in LockKeys |-> NoTask]
        /\ lockWaiters = [k \in LockKeys |-> << >>]
        /\ opCount = 0
        /\ clock = Epoch

RaceFrame == UNCHANGED <<sess, lockHolder, lockWaiters, opCount, clock>>

\* JoinRaceView button_callback: a registered user inside the bet limits
\* backs a racer while the race is pending.
RaceJoin ==
    \E u \in RacePlayers, racer \in RACE_RACERS :
        LET l == locals[RaceTask]
            bet == games[RaceGame].amount
        IN  /\ pc[RaceTask] = "joining"
            /\ u \notin DOMAIN l.racer_choices
            /\ validate_bet(users[u], bet)
            /\ games[RaceGame].status = "pending"
            /\ participants' = [participants EXCEPT
                                   ![RaceGame] = Append(@, ParticipantRow(u, bet))]
            /\ locals' = [locals EXCEPT
                             ![RaceTask].racer_choices = (u :> racer) @@ @]
            /\ UNCHANGED <<users, transactions, games, pc>>
            /\ RaceFrame

\* race_start after the join window closed with nobody in: the race is
\* cancelled.
RaceCancel ==
    LET out == get_session_exit(update_game_status(EmptySession, RaceGame, "cancelled"), FALSE)
    IN  /\ pc[RaceTask] = "joining"
        /\ Len(participants[RaceGame]) = 0
        /\ games' = out[3]
        /\ pc' = [pc EXCEPT ![RaceTask] = "done"]
        /\ UNCHANGED <<users, transactions, participants, locals>>
        /\ RaceFrame

\* _run_race up to the finish: the race becomes active and runs until a
\* racer is over the line.
RaceRun ==
    \E winner \in RACE_RACERS :
        LET out == get_session_exit(update_game_status(EmptySession, RaceGame, "active"), FALSE)
        IN  /\ pc[RaceTask] = "joining"
            /\ Len(participants[RaceGame]) > 0
            /\ games' = out[3]
            /\ locals' = [locals EXCEPT ![RaceTask].winner = winner]
            /\ pc' = [pc EXCEPT ![RaceTask] = "finished"]
            /\ UNCHANGED <<users, transactions, participants>>
            /\ RaceFrame

\* The balance and XP updates of _run_race for the rows ps, in one session.
RECURSIVE RacePay(_, _, _, _)
RacePay(s, ps, amount, reason) ==
    IF ps = << >> THEN s
    ELSE LET u == Head(ps).user_id
             s1 == update_user_balance(Loaded(s, u), u, amount, reason, RaceGame)
             s2 == add_user_xp(s1, u, calculate_xp_reward(games[RaceGame].amount))
         IN  RacePay(s2, Tail(ps), amount, reason)

\* _run_race from the finish on: the pot is split among the backers of the
\* winner, the others pay their bet.
RaceSettle ==
    LET l == locals[RaceTask]
        rows == participants[RaceGame]
        bet_amount == games[RaceGame].amount
        winning_participants == SelectSeq(rows, LAMBDA r : l.racer_choices[r.user_id] = l.winner)
        losing_participants == SelectSeq(rows, LAMBDA r : l.racer_choices[r.user_id] # l.winner)
        total_pot == Len(rows) * bet_amount
        payout_per_winner == total_pot \div Len(winning_participants)
        profit_per_winner == payout_per_winner - bet_amount
        s1 == IF Len(winning_participants) > 0
              THEN RacePay(RacePay(EmptySession, winning_participants,
                                   profit_per_winner, "animal_race_win"),
                           losing_participants, -bet_amount, "animal_race_loss")
              ELSE EmptySession
        out == get_session_exit(update_game_status(s1, RaceGame, "completed"), FALSE)
    IN  /\ pc[RaceTask] = "finished"
        /\ users' = out[1]
        /\ transactions' = out[2]
        /\ games' = out[3]
        /\ participants' = [participants EXCEPT ![RaceGame] =
              [i \in 1..Len(rows) |->
                  [rows[i] EXCEPT !.is_winner =
                      SqlBool(Len(winning_participants) > 0
                                  /\ l.racer_choices[rows[i].user_id] = l.winner)]]]
        /\ pc' = [pc EXCEPT ![RaceTask] = "done"]
        /\ UNCHANGED locals
        /\ RaceFrame

RaceNext == RaceJoin \/ RaceCancel \/ RaceRun \/ RaceSettle

SpecRace == RaceInit /\ [][RaceNext]_vars

\* C23: in every completed animal race each participant who bet on the
\* winning racer has gained floor(pot / number of winners) less the own bet,
\* with pot = number of participants x bet, and each participant who bet on
\* another racer has lost exactly the bet, also when nobody bet on the winner.
C23_RacePotSplit ==
    games[RaceGame].status = "completed" =>
        LET rows == participants[RaceGame]
            choice == locals[RaceTask].racer_choices
            winner == locals[RaceTask].winner
            bet == games[RaceGame].amount
            backers == {i \in 1..Len(rows) : choice[rows[i].user_id] = winner}
        IN  \A i \in 1..Len(rows) :
                LET delta == users[rows[i].user_id].balance - STARTING_BALANCE
                IN  IF i \in backers
                    THEN delta = ((Len(rows) * bet) \div Cardinality(backers)) - bet
                    ELSE delta = -bet

----------------------------------------------------------------------------
(* Specification SpecSlots: one /slots command over every stop of the reels *)

SlotTask == "slots"
SlotUser == 1
SlotBets == {0, 1, 5}
SlotSymbols == {SLOT_SYMBOLS[k] : k \in 1..Len(SLOT_SYMBOLS)}

SlotsInit ==
    /\ users = (SlotUser :> PlayerRow(STARTING_BALANCE))
    /\ transactions = <<TxRow(SlotUser, STARTING_BALANCE, "initial_grant", NoGame)>>
    /\ games = << >>
    /\ participants = << >>
    /\ sess = (SlotTask :> EmptySession)
    /\ pc = (SlotTask :> "idle")
    /\ locals = (SlotTask :> [symbols |-> << >>, bet |-> 0, accepted |-> FALSE])
    /\ lockHolder = [k \in LockKeys |-> NoTask]
    /\ lockWaiters = [k \in LockKeys |-> << >>]
    /\ opCount = 0
    /\ clock = Epoch

\* Slots.slots with the reels _spin_slots returned.
SlotsSpin ==
    \E bet \in SlotBets, symbols \in [1..SlotReels -> SlotSymbols] :
        LET u == SlotUser
            rejected == bet <= 0 \/ users[u].balance < bet
            payout == calculate_payout(symbols, bet)
            s1 == update_user_balance(Loaded(EmptySession, u), u, payout,
                                      IF payout > 0 THEN "slots_win" ELSE "slots_loss",
                                      NoGame)
            out == get_session_exit(s1, FALSE)
        IN  /\ pc[SlotTask] = "idle"
            /\ pc' = [pc EXCEPT ![SlotTask] = "done"]
            /\ UNCHANGED <<games, participants, sess, lockHolder, lockWaiters, opCount, clock>>
            /\ IF rejected
               THEN /\ locals' = [locals EXCEPT ![SlotTask] =
                                     [symbols |-> << >>, bet |-> bet, accepted |-> FALSE]]
                    /\ UNCHANGED <<users, transactions>>
               ELSE /\ locals' = [locals EXCEPT ![SlotTask] =
                                     [symbols |-> symbols, bet |-> bet, accepted |-> TRUE]]
                    /\ users' = out[1]
                    /\ transactions' = out[2]

SpecSlots == SlotsInit /\ [][SlotsSpin]_vars

\* C24: after an accepted spin, five skulls have decreased the balance by
\* 3 x bet; five of another symbol have paid that symbol's five-of-a-kind
\* multiplier; four matching symbols have paid 5 x bet and three matching
\* 2 x bet; fewer than three matching symbols have lost exactly the bet.
C24_SlotsPayout ==
    locals[SlotTask].accepted =>
        LET symbols == locals[SlotTask].symbols
            bet == locals[SlotTask].bet
            delta == users[SlotUser].balance - STARTING_BALANCE
            shown(k) == Cardinality({i \in 1..SlotReels : symbols[i] = SLOT_SYMBOLS[k]})
            most == MaxOf({shown(k) : k \in 1..Len(SLOT_SYMBOLS)})
        IN  IF shown(5) = 5 THEN delta = -(3 * bet)
            ELSE IF shown(4) = 5 THEN delta = SLOT_PAYOUT_FIVE_JACKPOT * bet
            ELSE IF shown(3) = 5 THEN delta = SLOT_PAYOUT_FIVE_HIGH * bet
            ELSE IF shown(2) = 5 \/ shown(1) = 5 THEN delta = SLOT_PAYOUT_FIVE_MID * bet
            ELSE IF most = 4 THEN delta = 5 * bet
            ELSE IF most = 3 THEN delta = 2 * bet
            ELSE delta = -bet

----------------------------------------------------------------------------
(* Specification SpecLeave: the lobby of a group-pot game *)

LeaveTask == "lobby"
LeaveGames == {"p1", "p2"}

\* _get_pending_group_pot_in_channel: the pending group-pot games of the channel.
PendingGroupPots ==
    {g \in DOMAIN games : games[g].type = "group_pot" /\ games[g].status = "pending"}

Without(rows, u) == SelectSeq(rows, LAMBDA r : r.user_id # u)

\* GroupPot.group_leave by a registered user u who is in the pending game g:
\* the row is deleted and committed; the game is cancelled when nobody is
\* left or when u created it.
GroupLeave(u, g) ==
    LET remaining_participants == Without(participants[g], u)
    IN  /\ u \in DOMAIN users
        /\ g \in PendingGroupPots
        /\ \E i \in 1..Len(participants[g]) : participants[g][i].user_id = u
        /\ participants' = [participants EXCEPT ![g] = remaining_participants]
        /\ games' = IF Len(remaining_participants) = 0
                    THEN [games EXCEPT ![g].status = "cancelled"]
                    ELSE IF u = games[g].created_by_user_id
                    THEN [games EXCEPT ![g].status = "cancelled"]
                    ELSE games
        /\ UNCHANGED <<users, transactions, sess, pc, locals, lockHolder, lockWaiters,
                       opCount, clock>>

LeaveInit ==
    /\ users = [u \in Accounts |-> UserRow(STARTING_BALANCE, STARTING_BALANCE, 0)]
    /\ transactions = [u \in Accounts |-> TxRow(u, STARTING_BALANCE, "initial_grant", NoGame)]
    /\ games = << >>
    /\ participants = << >>
    /\ sess = (LeaveTask :> EmptySession)
    /\ pc = (LeaveTask :> "lobby")
    /\ locals = (LeaveTask :> << >>)
    /\ lockHolder = [k \in LockKeys |-> NoTask]
    /\ lockWaiters = [k \in LockKeys |-> << >>]
    /\ opCount = 0
    /\ clock = Epoch

\* group_start refuses a second pending game in the channel.
LeaveGroupStart == \E g \in LeaveGames : PendingGroupPots = {} /\ GroupStart(g)
LeaveJoin == \E g \in LeaveGames : JoinButton(g)
LeaveLeave == \E u \in Accounts, g \in LeaveGames : GroupLeave(u, g)

LeaveNext == LeaveGroupStart \/ LeaveJoin \/ LeaveLeave

SpecLeave == LeaveInit /\ [][LeaveNext]_vars

GROUP_POT_MIN_PARTICIPANTS == 2

\* What the claim requires of a leave of u from the pending game g.
LeaveEffect(u, g) ==
    LET left == Len(participants'[g])
    IN  /\ \A i \in 1..left : participants'[g][i].user_id # u
        /\ left = Len(participants[g]) - 1
        /\ games'[g].status =
              IF left < GROUP_POT_MIN_PARTICIPANTS \/ u = games[g].created_by_user_id
              THEN "cancelled" ELSE "pending"

\* C25: when a participant leaves a pending group-pot game the participant's
\* row is removed, and the session is cancelled whenever the removal leaves
\* fewer than 2 participants or removes the creator; otherwise it stays
\* pending.
C25_LeaveCancelsBelowMinimum ==
    [][\A u \in Accounts, g \in LeaveGames : GroupLeave(u, g) => LeaveEffect(u, g)]_vars

----------------------------------------------------------------------------
(* crud.get_user_game_stats over the committed tables *)

\* count(DuelParticipant.id) joined with GameSession, for the rows that
\* satisfy Row(g, r).
CountParticipantRows(Row(_, _)) ==
    LET joined == UNION {{<<g, i>> : i \in 1..Len(participants[g])} : g \in DOMAIN games}
    IN  Cardinality({x \in joined : Row(x[1], participants[x[1]][x[2]])})

\* count(Transaction.id) of the user's rows with one of the reasons.
CountTransactions(user_id, reasons) ==
    Len(SelectSeq(TxOf(transactions, user_id), LAMBDA r : r.reason \in reasons))

get_user_game_stats(user_id) ==
    LET duels_played == CountParticipantRows(
                            LAMBDA g, r : /\ r.user_id = user_id
                                          /\ games[g].status = "completed")
        duels_won == CountParticipantRows(
                            LAMBDA g, r : /\ r.user_id = user_id
                                          /\ r.is_winner = "true"
                                          /\ games[g].status = "completed")
        played(win, loss) == CountTransactions(user_id, {win, loss})
        won(win) == CountTransactions(user_id, {win})
    IN  [duels_played |-> duels_played,
         duels_won |-> duels_won,
         duels_lost |-> duels_played - duels_won,
         slots_played |-> played("slots_win", "slots_loss"),
         slots_won |-> won("slots_win"),
         roulette_played |-> played("roulette_win", "roulette_loss"),
         roulette_won |-> won("roulette_win"),
         group_pot_played |-> played("group_pot_win", "group_pot_loss"),
         group_pot_won |-> won("group_pot_win"),
         blackjack_played |-> played("blackjack_win", "blackjack_loss"),
         blackjack_won |-> won("blackjack_win"),
         animal_race_played |-> played("animal_race_win", "animal_race_loss"),
         animal_race_won |-> won("animal_race_win")]

\* The completed decreasing-duel sessions the user took part in.
CompletedDuelsOf(u) ==
    {g \in DOMAIN games :
        /\ games[g].type = "decreasing_duel"
        /\ games[g].status = "completed"
        /\ \E i \in 1..Len(participants[g]) : participants[g][i].user_id = u}

\* The user has no settled game and no game transaction.
NoHistory(u) ==
    /\ \A g \in DOMAIN games :
          games[g].status = "completed" =>
              \A i \in 1..Len(participants[g]) : participants[g][i].user_id # u
    /\ \A i \in 1..Len(transactions) :
          transactions[i].user_id = u => transactions[i].reason = "initial_grant"

\* C26: get_user_game_stats returns zero for every counter of an account with
\* no history; duels_played is the number of completed decreasing-duel
\* sessions the user took part in, sessions of other game types not counted;
\* and for every game won <= played.
C26_GameStats ==
    \A u \in DOMAIN users :
        LET stats == get_user_game_stats(u)
        IN  /\ NoHistory(u) => \A k \in DOMAIN stats : stats[k] = 0
            /\ stats.duels_played = Cardinality(CompletedDuelsOf(u))
            /\ stats.duels_won <= stats.duels_played
            /\ stats.slots_won <= stats.slots_played
            /\ stats.roulette_won <= stats.roulette_played
            /\ stats.group_pot_won <= stats.group_pot_played
            /\ stats.blackjack_won <= stats.blackjack_played
            /\ stats.animal_race_won <= stats.animal_race_played

----------------------------------------------------------------------------
(* crud.get_user_rank over the committed accounts *)

get_user_rank_counts_ties(user_id) ==
    IF user_id \notin DOMAIN users THEN 0
    ELSE Cardinality({o \in DOMAIN users : users[o].balance >= users[user_id].balance}) + 1

get_user_rank(user_id) ==
    IF user_id \notin DOMAIN users THEN 0
    ELSE Cardinality({o \in DOMAIN users : users[o].balance > users[user_id].balance}) + 1

\* C27: the rank of an account is one more than the number of accounts that
\* are not poorer or equal, i.e. strictly richer: the single richest account
\* has rank 1, accounts with equal balance share a rank, and accounts with
\* different balances never have the same rank.
C27_RankByBalance ==
    \A u \in DOMAIN users :
        LET not_richer == {o \in DOMAIN users : users[o].balance <= users[u].balance}
        IN  /\ get_user_rank(u) = 1 + Cardinality(DOMAIN users) - Cardinality(not_richer)
            /\ (\A o \in DOMAIN users \ {u} : users[o].balance < users[u].balance)
                  => get_user_rank(u) = 1
            /\ \A o \in DOMAIN users :
                  (users[o].balance = users[u].balance) = (get_user_rank(o) = get_user_rank(u))

\* Three committed accounts: one richest, the other two tied behind it.
C27_Witness ==
    \E u, v, w \in DOMAIN users :
        /\ v # w
        /\ users[u].balance > users[v].balance
        /\ users[v].balance = users[w].balance
        /\ get_user_rank(u) = 1
        /\ get_user_rank(v) = 2
        /\ get_user_rank(w) = 2

----------------------------------------------------------------------------
(* Specification SpecStart: the creator presses Start twice on one game *)

StartAmount == 2

StartTasks == {"press1", "press2"}
StartGame == "g1"

\* GroupPotView.start_button up to the checks (lines 106-139): the handler
\* reads the game and its participants in its own session and answers with a
\* rejection unless the game is pending with at least two participants.
StartPressed(t, g) ==
    /\ pc[t] = "lobby"
    /\ pc' = [pc EXCEPT ![t] =
                 IF games[g].status = "pending" /\ Len(participants[g]) >= 2
                 THEN "starting" ELSE "rejected"]
    /\ UNCHANGED <<users, transactions, games, participants, sess, locals,
                   lockHolder, lockWaiters, opCount, clock>>

\* start_button from update_game_status(ACTIVE) on (lines 142-156), then the
\* start of _run_group_pot_game, which reads the participants and checks no
\* status.
StartActivate(t, g) ==
    /\ pc[t] = "starting"
    /\ games' = [games EXCEPT ![g].status = "active"]
    /\ sess' = [sess EXCEPT ![t] =
                    [EmptySession EXCEPT !.gcache = (g :> games'[g])]]
    /\ locals' = [locals EXCEPT ![t] =
                    PotLocals(g, [i \in 1..Len(participants[g]) |->
                                     participants[g][i].user_id], games[g].amount)]
    /\ pc' = [pc EXCEPT ![t] = "roll"]
    /\ UNCHANGED <<users, transactions, participants, lockHolder, lockWaiters, opCount, clock>>

StartInit ==
    /\ users = [u \in 1..2 |-> UserRow(STARTING_BALANCE, STARTING_BALANCE, 0)]
    /\ transactions = [u \in 1..2 |-> TxRow(u, STARTING_BALANCE, "initial_grant", NoGame)]
    /\ games = (StartGame :> GameRow("group_pot", "pending", 1, "channel", StartAmount))
    /\ participants = (StartGame :> <<ParticipantRow(1, StartAmount),
                                      ParticipantRow(2, StartAmount)>>)
    /\ sess = [t \in StartTasks |-> EmptySession]
    /\ pc = [t \in StartTasks |-> "lobby"]
    /\ locals = [t \in StartTasks |-> PotLocals(StartGame, << >>, 0)]
    /\ lockHolder = Unlocked
    /\ lockWaiters = NoWaiters
    /\ opCount = 0
    /\ clock = Epoch

StartNext ==
    \E t \in StartTasks :
        \/ StartPressed(t, StartGame)
        \/ StartActivate(t, StartGame)
        \/ PotRoll(t)
        \/ PotRerollWinners(t)
        \/ PotRerollLosers(t)
        \/ PotSettle(t)
        \/ PotWinnerLockGranted(t)
        \/ PotDebit(t)
        \/ PotCredit(t)
        \/ PotCommit(t)
        \/ PotComplete(t)

SpecStart == StartInit /\ [][StartNext]_vars

\* The presses of Start that were let through to the rolls.
Started == {t \in StartTasks : pc[t] \notin {"lobby", "starting", "rejected"}}

\* C29: a group-pot game is started and settled at most once: of the presses
\* of Start on one session, late or concurrent, at most one is let through,
\* so the rolls and the transfer never run twice for the session.
C29_StartedAtMostOnce == Cardinality(Started) <= 1

----------------------------------------------------------------------------
(* Specification SpecTimeout: the waits of the pending sessions *)

DUEL_TIMEOUT_SECONDS == 60
BLACKJACK_JOIN_TIMEOUT_SECONDS == 45
GAME_MODE_TIMEOUT_SECONDS == 10

\* The timeout each view passes to discord.ui.View, as the set of its
\* values: the empty set is timeout=None, a view that never expires.
ViewTimeout ==
    [DuelChallengeView |-> {DUEL_TIMEOUT_SECONDS},
     GameModeView      |-> {GAME_MODE_TIMEOUT_SECONDS},
     JoinGameView      |-> {BLACKJACK_JOIN_TIMEOUT_SECONDS},
     GroupPotView      |-> {}]

\* discord.ui.View: view.wait() returns on a timeout only if there is one.
Expires(view) == ViewTimeout[view] # {}

WaitDuel == "wait_duel"
WaitBlackjack == "wait_blackjack"
WaitPot == "wait_pot"
WaitTasks == {WaitDuel, WaitBlackjack, WaitPot}
WaitGame == (WaitDuel :> "d1") @@ (WaitBlackjack :> "b1") @@ (WaitPot :> "p1")

\* Blackjack.blackjack up to the wait for the mode (lines 137-219).
BlackjackCommand(t) ==
    \E u \in DOMAIN users :
        LET bet == BLACKJACK_MIN_BET
            g == WaitGame[t]
        IN  /\ pc[t] = "idle"
            /\ get_active_game_for_user(u) = {}
            /\ games' = (g :> GameRow("blackjack", "pending", u, "channel", bet)) @@ games
            /\ participants' = (g :> <<ParticipantRow(u, bet)>>) @@ participants
            /\ pc' = [pc EXCEPT ![t] = "mode"]
            /\ UNCHANGED <<users, transactions, sess, locals, lockHolder, lockWaiters,
                           opCount, clock>>

\* GameModeView.solo_button
SoloButton(t) ==
    /\ pc[t] = "mode"
    /\ pc' = [pc EXCEPT ![t] = "run"]
    /\ UNCHANGED <<users, transactions, games, participants, sess, locals,
                   lockHolder, lockWaiters, opCount, clock>>

\* GameModeView.multiplayer_button
MultiplayerButton(t) ==
    /\ pc[t] = "mode"
    /\ pc' = [pc EXCEPT ![t] = "join"]
    /\ UNCHANGED <<users, transactions, games, participants, sess, locals,
                   lockHolder, lockWaiters, opCount, clock>>

\* GameModeView expires: blackjack cancels the session (lines 273-282).
ModeTimeout(t) ==
    /\ pc[t] = "mode"
    /\ games' = get_session_exit(
                    update_game_status(EmptySession, WaitGame[t], "cancelled"), FALSE)[3]
    /\ pc' = [pc EXCEPT ![t] = "done"]
    /\ UNCHANGED <<users, transactions, participants, sess, locals,
                   lockHolder, lockWaiters, opCount, clock>>

\* JoinGameView.join_button
BlackjackJoin(t) ==
    \E u \in DOMAIN users :
        LET g == WaitGame[t]
        IN  /\ pc[t] = "join"
            /\ \A i \in 1..Len(participants[g]) : participants[g][i].user_id # u
            /\ get_active_game_for_user(u) = {}
            /\ participants' = [participants EXCEPT
                                   ![g] = Append(@, ParticipantRow(u, games[g].amount))]
            /\ UNCHANGED <<users, transactions, games, sess, pc, locals,
                           lockHolder, lockWaiters, opCount, clock>>

\* JoinGameView expires: blackjack goes on to the game (lines 248-271).
JoinTimeout(t) ==
    /\ pc[t] = "join"
    /\ pc' = [pc EXCEPT ![t] = "run"]
    /\ UNCHANGED <<users, transactions, games, participants, sess, locals,
                   lockHolder, lockWaiters, opCount, clock>>

\* The start of _run_game: the session becomes active (lines 291-297).
BlackjackRun(t) ==
    /\ pc[t] = "run"
    /\ games' = get_session_exit(
                    update_game_status(EmptySession, WaitGame[t], "active"), FALSE)[3]
    /\ pc' = [pc EXCEPT ![t] = "playing"]
    /\ UNCHANGED <<users, transactions, participants, sess, locals,
                   lockHolder, lockWaiters, opCount, clock>>

\* The view the command of task t is waiting on, if any.
WaitingView(t) ==
    IF t = WaitDuel /\ pc[t] = "wait" THEN "DuelChallengeView"
    ELSE IF t = WaitBlackjack /\ pc[t] = "mode" THEN "GameModeView"
    ELSE IF t = WaitBlackjack /\ pc[t] = "join" THEN "JoinGameView"
    ELSE IF t = WaitPot /\ pc[t] = "lobby" /\ WaitGame[t] \in DOMAIN games
         THEN "GroupPotView"
    ELSE "none"

\* The view task t waits on reaches its timeout: on_timeout runs and
\* view.wait() returns; GroupPotView defines no on_timeout and nothing waits
\* on it.
ViewExpires(t) ==
    LET view == WaitingView(t)
    IN  /\ view # "none"
        /\ Expires(view)
        /\ IF view = "DuelChallengeView" THEN on_timeout(t)
           ELSE IF view = "GameModeView" THEN ModeTimeout(t)
           ELSE IF view = "JoinGameView" THEN JoinTimeout(t)
           ELSE UNCHANGED vars

TimeoutInit ==
    /\ users = [u \in Accounts |-> UserRow(STARTING_BALANCE, STARTING_BALANCE, 0)]
    /\ transactions = [u \in Accounts |-> TxRow(u, STARTING_BALANCE, "initial_grant", NoGame)]
    /\ games = << >>
    /\ participants = << >>
    /\ sess = [t \in WaitTasks |-> EmptySession]
    /\ pc = (WaitDuel :> "idle") @@ (WaitBlackjack :> "idle") @@ (WaitPot :> "lobby")
    /\ locals = (WaitDuel :> DuelLocals) @@ (WaitBlackjack :> << >>)
                    @@ (WaitPot :> PotLocals(WaitGame[WaitPot], << >>, 0))
    /\ lockHolder = Unlocked
    /\ lockWaiters = NoWaiters
    /\ opCount = 0
    /\ clock = Epoch

\* What the users do.
UserActs ==
    \/ duel_start(WaitDuel, WaitGame[WaitDuel])
    \/ accept_button(WaitDuel)
    \/ decline_button(WaitDuel)
    \/ BlackjackCommand(WaitBlackjack)
    \/ SoloButton(WaitBlackjack)
    \/ MultiplayerButton(WaitBlackjack)
    \/ BlackjackJoin(WaitBlackjack)
    \/ GroupStart(WaitGame[WaitPot])
    \/ JoinButton(WaitGame[WaitPot])
    \/ StartButton(WaitPot, WaitGame[WaitPot])

\* What happens without any user: the views expire and the commands go on.
BotActs ==
    \/ \E t \in WaitTasks : ViewExpires(t)
    \/ run_duel(WaitDuel)
    \/ BlackjackRun(WaitBlackjack)

TimeoutNext == UserActs \/ BotActs

\* Every timer that is running runs out and every command that can go on
\* does; no user is obliged to act.
TimeoutFairness ==
    /\ \A t \in WaitTasks : WF_vars(ViewExpires(t))
    /\ WF_vars(run_duel(WaitDuel))
    /\ WF_vars(BlackjackRun(WaitBlackjack))

SpecTimeout == TimeoutInit /\ [][TimeoutNext]_vars /\ TimeoutFairness

Pending(g) == g \in DOMAIN games /\ games[g].status = "pending"

\* C30: every pending session eventually leaves pending even if no user
\* ever acts again: each join, challenge-response and mode-selection window
\* expires after a finite time, and its expiry cancels or starts the session.
C30_PendingEventuallyLeft ==
    \A t \in WaitTasks : Pending(WaitGame[t]) ~> ~Pending(WaitGame[t])


----------------------------------------------------------------------------
(* Specification SpecTurn: the reaction windows of _player_turn             *)

\* Length of one wait_for window (BLACKJACK_ACTION_TIMEOUT_SECONDS) in ticks
\* of the model's clock.
WindowTicks == 2

TurnTable == <<<<1>>, BLACKJACK_MIN_BET>>

\* Hand.can_split
can_split(hand) == Len(hand.cards) = 2 /\ hand.cards[1] = hand.cards[2]

TurnInit ==
    LET ids == TurnTable[1]  bet == TurnTable[2] IN
        /\ users = [u \in SeqRange(ids) |-> UserRow(STARTING_BALANCE, STARTING_BALANCE, 0)]
        /\ transactions = [i \in 1..Len(ids) |->
                              TxRow(ids[i], STARTING_BALANCE, "initial_grant", NoGame)]
        /\ games = (BjGame :> GameRow("blackjack", "pending", ids[1], "channel", bet))
        /\ participants = (BjGame :> [i \in 1..Len(ids) |-> ParticipantRow(ids[i], bet)])
        /\ sess = (BjTask :> EmptySession)
        /\ pc = (BjTask :> "pending")
        /\ locals = (BjTask :> [player_ids |-> ids,
                                hands |-> [p \in SeqRange(ids) |-> Hand(bet)],
                                dealer |-> Hand(0),
                                turn |-> 1,
                                hits |-> 0,
                                waited |-> 0,
                                split_embed |-> FALSE])
        /\ lockHolder = [k \in LockKeys |-> NoTask]
        /\ lockWaiters = [k \in LockKeys |-> << >>]
        /\ opCount = 0
        /\ clock = Epoch

\* One iteration of the while loop of _player_turn ends: the turn passes on
\* when the iteration broke out of the loop or the loop condition fails,
\* else the turn embed is sent again and a new wait_for window opens.
TurnLoop(l, hand, broke) ==
    LET p == l.player_ids[l.turn]
        hands == [l.hands EXCEPT ![p] = hand]
        over == broke \/ hand.is_stand \/ is_bust(hand)
        next == IF over THEN NextTurn(l.player_ids, hands, l.turn + 1) ELSE l.turn
    IN  /\ locals' = [locals EXCEPT ![BjTask] =
                         [l EXCEPT !.hands = hands, !.turn = next, !.waited = 0]]
        /\ pc' = [pc EXCEPT ![BjTask] = AfterTurn(l, next)]
        /\ UNCHANGED <<users, transactions, games, participants>>
        /\ BjFrame

\* wait_for is pending on the reaction of the player whose turn it is.
TurnWaits == pc[BjTask] = "players" /\ locals[BjTask].waited < WindowTicks

\* Time passes inside the window without a matching reaction.
TurnTick ==
    /\ TurnWaits
    /\ locals' = [locals EXCEPT ![BjTask].waited = @ + 1]
    /\ UNCHANGED <<users, transactions, games, participants, pc>>
    /\ BjFrame

\* The hit reaction.
TurnHit ==
    \E r \in Ranks :
        LET l == locals[BjTask]
            hand == add_card(l.hands[l.player_ids[l.turn]], r)
        IN  /\ TurnWaits
            /\ l.hits < MaxBjHits
            /\ CanDeal(l, r)
            /\ TurnLoop([l EXCEPT !.hits = @ + 1], hand, is_bust(hand))

\* The stand reaction.
TurnStand ==
    LET l == locals[BjTask]
    IN  /\ TurnWaits
        /\ TurnLoop(l, [l.hands[l.player_ids[l.turn]] EXCEPT !.is_stand = TRUE], TRUE)

\* The double-down reaction on a hand that can double.
TurnDouble ==
    \E r \in Ranks :
        LET l == locals[BjTask]
            old == l.hands[l.player_ids[l.turn]]
        IN  /\ TurnWaits
            /\ can_double(old)
            /\ CanDeal(l, r)
            /\ TurnLoop(l, [add_card(old, r) EXCEPT !.is_doubled = TRUE,
                                                    !.bet = old.bet * 2,
                                                    !.is_stand = TRUE], TRUE)

\* The split reaction on a hand that can split: the "Split Not Available"
\* embed is sent and the loop continues.
TurnSplit ==
    LET l == locals[BjTask]
        old == l.hands[l.player_ids[l.turn]]
    IN  /\ TurnWaits
        /\ can_split(old)
        /\ TurnLoop([l EXCEPT !.split_embed = TRUE], old, FALSE)

\* A reaction that passes check() and matches no branch: the double-down
\* emoji on a hand that cannot double, or the split emoji on a hand that
\* cannot split.  Nothing is sent and the loop goes round.
TurnUnoffered ==
    LET l == locals[BjTask]
        old == l.hands[l.player_ids[l.turn]]
    IN  /\ TurnWaits
        /\ ~can_double(old) \/ ~can_split(old)
        /\ TurnLoop(l, old, FALSE)

\* asyncio.TimeoutError: the window has passed, the hand stands.
TurnTimeout ==
    LET l == locals[BjTask]
    IN  /\ pc[BjTask] = "players"
        /\ l.waited = WindowTicks
        /\ TurnLoop(l, [l.hands[l.player_ids[l.turn]] EXCEPT !.is_stand = TRUE], TRUE)

TurnNext ==
    \/ BjDeal
    \/ TurnTick
    \/ TurnHit
    \/ TurnStand
    \/ TurnDouble
    \/ TurnSplit
    \/ TurnUnoffered
    \/ TurnTimeout
    \/ BjDealerHit
    \/ BjFinalize
    \/ BjHandleDealerBlackjack

\* The bot's own steps are taken when they can be, and time passes; the
\* player's reactions are under no obligation.
TurnFairness ==
    /\ WF_vars(BjDeal)
    /\ WF_vars(TurnTick)
    /\ WF_vars(TurnTimeout)
    /\ WF_vars(BjDealerHit)
    /\ WF_vars(BjFinalize)
    /\ WF_vars(BjHandleDealerBlackjack)

SpecTurn == TurnInit /\ [][TurnNext]_vars /\ TurnFairness

\* C31: every active blackjack session eventually reaches completed.
C31_ActiveEventuallyCompleted ==
    (games[BjGame].status = "active") ~> (games[BjGame].status = "completed")

\* The parts of C31 about single reactions: a reaction leaves the turn with
\* the player exactly when the hand neither stands nor is bust, a split
\* request changes no hand and no bet, and the dealer holds at least the
\* stand value before its last card only when it never drew.
TurnStepEffects ==
    [][\A p \in DOMAIN locals[BjTask].hands :
          /\ TurnSplit => /\ locals'[BjTask].hands = locals[BjTask].hands
                          /\ locals'[BjTask].split_embed
          /\ TurnTimeout => locals'[BjTask].hands[p].is_stand
                                \/ locals[BjTask].player_ids[locals[BjTask].turn] # p
          /\ BjDealerHit => value(locals[BjTask].dealer) < BLACKJACK_DEALER_STAND_VALUE]_vars

----------------------------------------------------------------------------
(* Specification SpecReroll: a started group pot under fair dice            *)

\* The steps of _run_group_pot_game are taken when they can be, and the
\* dice are fair: a tie that is re-rolled again and again is broken when
\* some draw can break it.
RerollFairness ==
    /\ WF_vars(PotRoll(PotTask))
    /\ SF_vars(PotRerollWinners(PotTask) /\ Len(locals'[PotTask].winners) = 1)
    /\ SF_vars(PotRerollLosers(PotTask) /\ Len(locals'[PotTask].losers) = 1)
    /\ WF_vars(PotSettle(PotTask))
    /\ WF_vars(PotDebit(PotTask))
    /\ WF_vars(PotCredit(PotTask))
    /\ WF_vars(PotCommit(PotTask))
    /\ WF_vars(PotComplete(PotTask))

SpecReroll == PotInit /\ [][PotNext]_vars /\ RerollFairness

\* The status of the game of the runs, "none" before group_start.
PotStatus == IF PotGame \in DOMAIN games THEN games[PotGame].status ELSE "none"
PotAmount == IF PotGame \in DOMAIN games THEN games[PotGame].amount ELSE 0

\* C32: every started group-pot game eventually reaches completed, for
\* every bet amount >= 1 and every number of participants >= 2.
C32_StartedEventuallyCompleted == (PotStatus = "active") ~> (PotStatus = "completed")

\* The same for the games whose amount is at least 2.
RerollLeavesTiesAboveOne ==
    (PotStatus = "active" /\ PotAmount >= 2) ~> (PotStatus = "completed")

----------------------------------------------------------------------------
(* Specification SpecAccept: a challenge whose players' balances move        *)
(* between the challenge and its acceptance                                   *)

MaxAdminOps == 2
AdminAmounts == {-2, 1}

\* Admin.admin_add_coins for the account u, the whole command: the lock of
\* the account is free, the balance moves by amount and the session commits.
admin_add_coins(u, amount) ==
    LET s1 == update_user_balance(Loaded(EmptySession, u), u, amount,
                                  "admin_adjustment", NoGame)
        out == get_session_exit(s1, FALSE)
    IN  /\ opCount < MaxAdminOps
        /\ lockHolder[DiscordId(u)] = NoTask
        /\ users' = out[1]
        /\ transactions' = out[2]
        /\ opCount' = opCount + 1
        /\ UNCHANGED <<games, participants, sess, pc, locals, lockHolder, lockWaiters, clock>>

\* Both players hold exactly the largest wager.
AcceptInit ==
    /\ users = [u \in 1..2 |-> UserRow(MaxWager, MaxWager, 0)]
    /\ transactions = [u \in 1..2 |-> TxRow(u, MaxWager, "initial_grant", NoGame)]
    /\ games = << >>
    /\ participants = << >>
    /\ sess = (DuelTask :> EmptySession) @@ (CancelTask :> EmptySession)
    /\ pc = (DuelTask :> "idle") @@ (CancelTask :> "idle")
    /\ locals = (DuelTask :> DuelLocals) @@ (CancelTask :> DuelLocals)
    /\ lockHolder = Unlocked
    /\ lockWaiters = NoWaiters
    /\ opCount = 0
    /\ clock = Epoch

AcceptNext ==
    \/ duel_start(DuelTask, DuelGame)
    \/ \E u \in DOMAIN users, amount \in AdminAmounts : admin_add_coins(u, amount)
    \/ accept_button(DuelTask)
    \/ decline_button(DuelTask)
    \/ on_timeout(DuelTask)
    \/ run_duel(DuelTask)
    \/ duel_roll(DuelTask)
    \/ duel_automatic_loss(DuelTask)
    \/ FinalizeCredit(DuelTask)
    \/ FinalizeDebit(DuelTask)
    \/ FinalizeCommit(DuelTask)
    \/ duel_cancel_read(CancelTask)
    \/ duel_cancel_write(CancelTask)

SpecAccept == AcceptInit /\ [][AcceptNext]_vars

\* A player of the accepted challenge holds less than the wager.
Underfunded ==
    LET v == locals[DuelTask]
    IN  users[v.challenger].balance < v.amount \/ users[v.opponent].balance < v.amount

\* C33: when a challenge is accepted while a player's balance is below the
\* wager, the session, which has not been active, is cancelled (a pending
\* session goes from pending to cancelled) and no balance and no transaction
\* changes; the session never becomes active afterwards.
C33_AcceptWithoutFunds ==
    [][/\ (pc[DuelTask] = "run" /\ Underfunded /\ run_duel(DuelTask))
            => /\ games[DuelGame].status \in {"pending", "cancelled"}
               /\ games'[DuelGame].status = "cancelled"
               /\ users' = users
               /\ transactions' = transactions
       /\ pc[DuelTask] = "insufficient_funds"
            => games'[DuelGame].status = "cancelled"]_vars

\* An accepted challenge was cancelled for lack of funds of the opponent.
C33_Witness ==
    /\ pc[DuelTask] = "insufficient_funds"
    /\ pc[CancelTask] = "idle"
    /\ games[DuelGame].status = "cancelled"
    /\ users[locals[DuelTask].opponent].balance < locals[DuelTask].amount
    /\ users[locals[DuelTask].challenger].balance >= locals[DuelTask].amount

----------------------------------------------------------------------------
(* Claims about the streak status checks *)

\* Whole daily windows from the window of the local reading w to the
\* current window, and whole clock hours from the hour of w to the current
\* hour.
WindowGap(w) == (PeriodStart(Now.wall) - PeriodStart(w)) \div MinutesPerDay
HourGap(w) == (Now.wall \div MinutesPerHour) - (w \div MinutesPerHour)

\* C34: check_daily_streak_status reports broken exactly when at least one
\* whole daily window lies between the window of the last claim and the
\* current window, with missed = window gap - 1; check_hourly_streak_status
\* reports broken exactly when at least 2 whole clock hours lie between the
\* hour of the last claim and the current hour; an account that has never
\* claimed is never reported broken.
C34_StreakStatus ==
    LET user == users[StreakUser]
        daily == check_daily_streak_status(user)
        hourly == check_hourly_streak_status(user)
    IN  /\ user.last_daily = None => daily = <<FALSE, 0>>
        /\ user.last_hourly = None => hourly = <<FALSE, 0>>
        /\ LastWriteWasClaim("daily") =>
              LET gap == WindowGap(ClaimedAt("daily"))
              IN  /\ daily[1] <=> gap - 1 >= 1
                  /\ daily[2] = IF gap >= 1 THEN gap - 1 ELSE 0
        /\ LastWriteWasClaim("hourly") =>
              (hourly[1] <=> HourGap(ClaimedAt("hourly")) - 1
                                 >= HOURLY_STREAK_MISSED_THRESHOLD)

----------------------------------------------------------------------------
(* Specification SpecSuspend: /slots, a solo roulette game and a group pot  *)
(* running side by side, with their locks, waits and pauses                 *)

SuspendBet == 5
SuspendPotAmount == 2

RouletteTask == "roulette"
RouletteGame == "w1"
\* Account 1 plays slots and roulette; accounts 2 and 3 play the group pot.
Gambler == 1
SuspendTasks == {SlotTask, RouletteTask, PotTask}

SuspendInit ==
    /\ users = [u \in 1..3 |-> PlayerRow(STARTING_BALANCE)]
    /\ transactions = [u \in 1..3 |-> TxRow(u, STARTING_BALANCE, "initial_grant", NoGame)]
    /\ games = (RouletteGame :> GameRow("roulette", "pending", Gambler, "channel", SuspendBet))
                @@ (PotGame :> GameRow("group_pot", "pending", 2, "channel", SuspendPotAmount))
    /\ participants = (RouletteGame :> <<ParticipantRow(Gambler, SuspendBet)>>)
                @@ (PotGame :> <<ParticipantRow(2, SuspendPotAmount),
                                 ParticipantRow(3, SuspendPotAmount)>>)
    /\ sess = [t \in SuspendTasks |-> EmptySession]
    /\ pc = (SlotTask :> "idle") @@ (RouletteTask :> "type_view") @@ (PotTask :> "lobby")
    /\ locals = (SlotTask :> [payout |-> 0]) @@ (RouletteTask :> [payout |-> 0])
                @@ (PotTask :> PotLocals(PotGame, << >>, 0))
    /\ lockHolder = Unlocked
    /\ lockWaiters = NoWaiters
    /\ opCount = 0
    /\ clock = Epoch

\* Slots.slots line 94: async with get_user_lock(interaction.user.id)
SlotsAcquire ==
    LET after == AcquireLock(lockHolder, lockWaiters, SlotTask, DiscordId(Gambler))
    IN  /\ pc[SlotTask] = "idle"
        /\ lockHolder' = after[1]
        /\ lockWaiters' = after[2]
        /\ pc' = [pc EXCEPT ![SlotTask] = "slots_lock"]
        /\ UNCHANGED <<users, transactions, games, participants, sess, locals, opCount, clock>>

\* A /slots command that would start its reel animation inside the lock.
SlotsSettle_animates_inside_lock ==
    \E outcome \in SlotOutcomes :
        LET u == Gambler
            payout == SlotPayout(outcome, SuspendBet)
            s1 == update_user_balance(Loaded(EmptySession, u), u, payout,
                                      IF payout > 0 THEN "slots_win" ELSE "slots_loss",
                                      NoGame)
            out == get_session_exit(s1, FALSE)
        IN  /\ pc[SlotTask] = "slots_lock"
            /\ HoldsLock(SlotTask, DiscordId(u))
            /\ users' = out[1]
            /\ transactions' = out[2]
            /\ locals' = [locals EXCEPT ![SlotTask].payout = payout]
            /\ pc' = [pc EXCEPT ![SlotTask] = "reel_animation"]
            /\ UNCHANGED <<games, participants, sess, lockHolder, lockWaiters,
                           opCount, clock>>

\* Slots.slots lines 95-127, with the lock held: the balance is checked, the
\* reels are spun, the payout is booked and committed; leaving the block
\* releases the lock, then the first embed is sent and the pauses begin.
SlotsSettle ==
    \E outcome \in SlotOutcomes :
        LET u == Gambler
            payout == SlotPayout(outcome, SuspendBet)
            s1 == update_user_balance(Loaded(EmptySession, u), u, payout,
                                      IF payout > 0 THEN "slots_win" ELSE "slots_loss",
                                      NoGame)
            out == get_session_exit(s1, FALSE)
            released == ReleaseLock(lockHolder, lockWaiters, DiscordId(u))
        IN  /\ pc[SlotTask] = "slots_lock"
            /\ HoldsLock(SlotTask, DiscordId(u))
            /\ users' = out[1]
            /\ transactions' = out[2]
            /\ lockHolder' = released[1]
            /\ lockWaiters' = released[2]
            /\ locals' = [locals EXCEPT ![SlotTask].payout = payout]
            /\ pc' = [pc EXCEPT ![SlotTask] = "reel_animation"]
            /\ UNCHANGED <<games, participants, sess, opCount, clock>>

\* Slots.slots lines 129-261: the reels are revealed with pauses in between.
SlotsReveal ==
    /\ pc[SlotTask] = "reel_animation"
    /\ pc' = [pc EXCEPT ![SlotTask] = "done"]
    /\ UNCHANGED <<users, transactions, games, participants, sess, locals,
                   lockHolder, lockWaiters, opCount, clock>>

\* _run_solo_game: a view.wait() returns (a button or the view's timeout)
\* and the next stage begins: the bet type, the bet value, the animation.
RouletteStage ==
    /\ pc[RouletteTask] \in {"type_view", "value_view"}
    /\ pc' = [pc EXCEPT ![RouletteTask] =
                 IF pc[RouletteTask] = "type_view" THEN "value_view" ELSE "spin_animation"]
    /\ UNCHANGED <<users, transactions, games, participants, sess, locals,
                   lockHolder, lockWaiters, opCount, clock>>

\* _run_solo_game line 829, after the animation: async with get_user_lock(player_id)
RouletteAcquire ==
    LET after == AcquireLock(lockHolder, lockWaiters, RouletteTask, DiscordId(Gambler))
    IN  /\ pc[RouletteTask] = "spin_animation"
        /\ lockHolder' = after[1]
        /\ lockWaiters' = after[2]
        /\ pc' = [pc EXCEPT ![RouletteTask] = "roulette_lock"]
        /\ UNCHANGED <<users, transactions, games, participants, sess, locals, opCount, clock>>

\* _run_solo_game lines 830-870, with the lock held: the session becomes
\* active, the payout and the experience are booked, the session is
\* completed and committed; leaving the block releases the lock.
RouletteSettle ==
    \E outcome \in RouletteOutcomes :
        LET u == Gambler
            g == RouletteGame
            payout == RoulettePayout(outcome, SuspendBet)
            s0 == update_game_status(Loaded(EmptySession, u), g, "active")
            s1 == update_user_balance(s0, u, payout,
                                      IF payout > 0 THEN "roulette_win" ELSE "roulette_loss",
                                      g)
            s2 == add_user_xp(s1, u, calculate_xp_reward(SuspendBet))
            s3 == update_game_status(s2, g, "completed")
            out == get_session_exit(s3, FALSE)
            released == ReleaseLock(lockHolder, lockWaiters, DiscordId(u))
        IN  /\ pc[RouletteTask] = "roulette_lock"
            /\ HoldsLock(RouletteTask, DiscordId(u))
            /\ users' = out[1]
            /\ transactions' = out[2]
            /\ games' = out[3]
            /\ participants' = [participants EXCEPT ![g][1].is_winner = SqlBool(payout > 0)]
            /\ lockHolder' = released[1]
            /\ lockWaiters' = released[2]
            /\ locals' = [locals EXCEPT ![RouletteTask].payout = payout]
            /\ pc' = [pc EXCEPT ![RouletteTask] = "near_miss"]
            /\ UNCHANGED <<sess, opCount, clock>>

\* _run_solo_game lines 872-976: the result, the pause before the near-miss
\* message, the tier-up notice.
RouletteResult ==
    /\ pc[RouletteTask] = "near_miss"
    /\ pc' = [pc EXCEPT ![RouletteTask] = "done"]
    /\ UNCHANGED <<users, transactions, games, participants, sess, locals,
                   lockHolder, lockWaiters, opCount, clock>>

SuspendNext ==
    \/ SlotsAcquire
    \/ SlotsSettle
    \/ SlotsReveal
    \/ RouletteStage
    \/ RouletteAcquire
    \/ RouletteSettle
    \/ RouletteResult
    \/ StartButton(PotTask, PotGame)
    \/ PotRoll(PotTask)
    \/ PotRerollWinners(PotTask)
    \/ PotRerollLosers(PotTask)
    \/ PotSettle(PotTask)
    \/ PotDebit(PotTask)
    \/ PotCredit(PotTask)
    \/ PotCommit(PotTask)
    \/ PotComplete(PotTask)

SpecSuspend == SuspendInit /\ [][SuspendNext]_vars

\* The positions at which a task waits for a button, a reaction or a view
\* timeout, or sleeps between two messages: the lobby of the group pot, its
\* rolls and re-rolls, the two selection views of roulette, its wheel
\* animation and the pause before the near-miss message, and the reel
\* animation of slots.
SuspensionPoints ==
    {"lobby", "roll", "ties", "type_view", "value_view", "spin_animation",
     "near_miss", "reel_animation"}

LocksHeldBy(t) == {k \in LockKeys : lockHolder[k] = t}

\* C35: a task that waits for user input or sleeps for pacing holds no
\* account lock.
C35_NoLockAcrossSuspension ==
    \A t \in SuspendTasks : pc[t] \in SuspensionPoints => LocksHeldBy(t) = {}

\* The reels of a settled /slots command are being revealed while the
\* roulette game of the same account settles under the account's lock.
C35_Witness ==
    /\ pc[SlotTask] = "reel_animation"
    /\ Len(TxOf(transactions, Gambler)) = 2
    /\ pc[RouletteTask] = "roulette_lock"
    /\ LocksHeldBy(RouletteTask) = {DiscordId(Gambler)}
    /\ pc[PotTask] = "ties"

----------------------------------------------------------------------------
(* Specification SpecClaim: concurrent /daily and /hourly commands of one   *)
(* user                                                                      *)

MaxClaimOps == 2

ClaimTasks == {"claim1", "claim2"}

ClaimLocals == [track |-> "none", queued |-> FALSE, can_claim |-> FALSE, at |-> 0]

ClaimInit ==
    /\ users = (StreakUser :> PlayerRow(STARTING_BALANCE))
    /\ transactions = <<TxRow(StreakUser, STARTING_BALANCE, "initial_grant", NoGame)>>
    /\ games = << >>
    /\ participants = << >>
    /\ sess = [t \in ClaimTasks |-> EmptySession]
    /\ pc = [t \in ClaimTasks |-> "idle"]
    /\ locals = [t \in ClaimTasks |-> ClaimLocals]
    /\ lockHolder = Unlocked
    /\ lockWaiters = NoWaiters
    /\ opCount = 0
    /\ \E off \in UtcOffsets : clock = [utc |-> FirstTimePoint - off, offset |-> off]

\* Economy.daily line 148, Economy.hourly line 274:
\* async with get_user_lock(interaction.user.id)
ClaimAcquire(t, track) ==
    LET after == AcquireLock(lockHolder, lockWaiters, t, DiscordId(StreakUser))
    IN  /\ pc[t] = "idle"
        /\ opCount < MaxClaimOps
        /\ opCount' = opCount + 1
        /\ lockHolder' = after[1]
        /\ lockWaiters' = after[2]
        /\ locals' = [locals EXCEPT ![t] =
                         [ClaimLocals EXCEPT !.track = track,
                                             !.queued = after[1][DiscordId(StreakUser)] # t]]
        /\ pc' = [pc EXCEPT ![t] = "acquire"]
        /\ UNCHANGED <<users, transactions, games, participants, sess, clock>>

\* A command that reads the user without waiting for its lock.
ClaimRead_without_lock(t) ==
    LET s0 == Loaded(EmptySession, StreakUser)
        user == get_user_by_id(s0, StreakUser)
    IN  /\ pc[t] = "acquire"
        /\ sess' = [sess EXCEPT ![t] = s0]
        /\ locals' = [locals EXCEPT ![t].can_claim =
                         IF locals[t].track = "daily" THEN can_claim_daily(user)
                         ELSE can_claim_hourly(user)]
        /\ pc' = [pc EXCEPT ![t] = "claim"]
        /\ UNCHANGED <<users, transactions, games, participants, lockHolder,
                       lockWaiters, opCount, clock>>

\* With the lock held: the session opens, the user is loaded and
\* can_claim_daily / can_claim_hourly is asked (economy.py 149-160, 275-286).
ClaimRead(t) ==
    LET s0 == Loaded(EmptySession, StreakUser)
        user == get_user_by_id(s0, StreakUser)
    IN  /\ pc[t] = "acquire"
        /\ HoldsLock(t, DiscordId(StreakUser))
        /\ sess' = [sess EXCEPT ![t] = s0]
        /\ locals' = [locals EXCEPT ![t].can_claim =
                         IF locals[t].track = "daily" THEN can_claim_daily(user)
                         ELSE can_claim_hourly(user)]
        /\ pc' = [pc EXCEPT ![t] = "claim"]
        /\ UNCHANGED <<users, transactions, games, participants, lockHolder,
                       lockWaiters, opCount, clock>>

\* The rest of the command: a refusal, or the streak update, the reward and
\* the new timestamp (economy.py 162-197, 288-323); the session commits and
\* the lock is released.
ClaimWrite(t) ==
    LET track == locals[t].track
        r == IF track = "daily" THEN update_daily_streak(sess[t], StreakUser)
             ELSE update_hourly_streak(sess[t], StreakUser)
        s2 == update_user_balance(r.session, StreakUser, r.reward,
                                  IF track = "daily" THEN "daily_reward"
                                  ELSE "hourly_reward", NoGame)
        s3 == IF track = "daily" THEN update_last_daily(s2, StreakUser)
              ELSE update_last_hourly(s2, StreakUser)
        out == get_session_exit(IF locals[t].can_claim THEN s3 ELSE sess[t], FALSE)
        released == ReleaseLock(lockHolder, lockWaiters, DiscordId(StreakUser))
    IN  /\ pc[t] = "claim"
        /\ users' = out[1]
        /\ transactions' = out[2]
        /\ sess' = [sess EXCEPT ![t] = EmptySession]
        /\ lockHolder' = released[1]
        /\ lockWaiters' = released[2]
        /\ locals' = [locals EXCEPT ![t].at = Now.wall]
        /\ pc' = [pc EXCEPT ![t] = "idle"]
        /\ UNCHANGED <<games, participants, opCount, clock>>

ClaimNext ==
    \/ Tick
    \/ \E t \in ClaimTasks, track \in Tracks : ClaimAcquire(t, track)
    \/ \E t \in ClaimTasks : ClaimRead(t)
    \/ \E t \in ClaimTasks : ClaimWrite(t)

SpecClaim == ClaimInit /\ [][ClaimNext]_vars

\* The window that contains the local reading w: the daily window by its
\* start, the hourly window by its clock hour.
WindowOf(track, w) ==
    IF track = "daily" THEN PeriodStart(w) ELSE (w \div MinutesPerHour) * MinutesPerHour

RewardReason(track) == IF track = "daily" THEN "daily_reward" ELSE "hourly_reward"

\* The rewards of a track among the transactions.
Rewards(log, track) == SelectSeq(log, LAMBDA tx : tx.reason = RewardReason(track))

\* C36: under any interleaving of concurrent /daily commands (or concurrent
\* /hourly commands) of one user, a step that credits a reward or moves the
\* streak credits exactly one reward, and the previous claim on the track,
\* if there is one, lies in an earlier reset window than the present one:
\* at most one reward and one streak step per window.
C36_OneClaimPerWindow ==
    [][\A track \in Tracks :
          LET before == users[StreakUser]
              after == users'[StreakUser]
              credited == Len(Rewards(transactions', track))
                              - Len(Rewards(transactions, track))
          IN  (credited # 0 \/ StreakOf(after, track) # StreakOf(before, track)) =>
                  /\ credited = 1
                  /\ StreakOf(before, track) > 0 =>
                        WindowOf(track, ClaimedAt(track)) < WindowOf(track, Now.wall)]_vars

\* Two /daily commands issued together at one time: the one that had to
\* queue for the lock was refused, one reward is booked.
C36_Witness ==
    /\ \A t \in ClaimTasks : pc[t] = "idle" /\ locals[t].track = "daily"
                                /\ locals[t].at = Now.wall
    /\ locals["claim1"].can_claim /\ ~locals["claim1"].queued
    /\ ~locals["claim2"].can_claim /\ locals["claim2"].queued
    /\ Len(Rewards(transactions, "daily")) = 1
    /\ users[StreakUser].daily_streak = 1

----------------------------------------------------------------------------
(* Claims about the stored timestamps *)

\* The last-claim timestamp of a track as a later session reads it and as
\* can_claim_daily, can_claim_hourly and the status checks normalise it: the
\* local reading of the instant they take it to denote.
ReadBack(track) ==
    AsLocal(IF track = "daily" THEN users[StreakUser].last_daily
            ELSE users[StreakUser].last_hourly).wall

\* The local reading of the instant an insurance purchase made now writes:
\* one minute after the start it computes.
Restored(track) ==
    IF track = "daily" THEN current_period_start.wall + 1
    ELSE current_hour_start.wall - MinutesPerHour + 1

\* C37: the last-claim timestamp written by a claim or by an insurance
\* purchase denotes the same instant when it is read back: a claim made at
\* the local reading t is read back as t, a purchase that wrote the local
\* reading r is read back as r.
C37_TimestampRoundTrip ==
    \A track \in Tracks :
        /\ Claimed(track) => ReadBack(track) = locals[StreakTask].at
        /\ (SaveAttempted(track) /\ locals[StreakTask].success
              /\ Now.wall = locals[StreakTask].at) => ReadBack(track) = Restored(track)

----------------------------------------------------------------------------
(* Specification SpecChannel: /group_start commands of two users *)

MaxStartOps == 3

ChannelTasks == {"start1", "start2"}
ChannelIds == {"channel", "lounge"}
ChannelUsers == 1..2
ChannelAmounts == {0, 2}

\* The primary keys the game_sessions table hands out, in order.
GameIds == <<"g1", "g2", "g3">>
NextGameId == GameIds[Cardinality(DOMAIN games) + 1]

ChannelLocals == [user |-> 0, channel |-> "none", amount |-> 0]

ChannelInit ==
    /\ users = [u \in ChannelUsers |-> UserRow(STARTING_BALANCE, STARTING_BALANCE, 0)]
    /\ transactions = [u \in ChannelUsers |->
                          TxRow(u, STARTING_BALANCE, "initial_grant", NoGame)]
    /\ games = << >>
    /\ participants = << >>
    /\ sess = [t \in ChannelTasks |-> EmptySession]
    /\ pc = [t \in ChannelTasks |-> "idle"]
    /\ locals = [t \in ChannelTasks |-> ChannelLocals]
    /\ lockHolder = Unlocked
    /\ lockWaiters = NoWaiters
    /\ opCount = 0
    /\ clock = Epoch

\* _get_pending_group_pot_in_channel: the pending group-pot games of a channel.
PendingIn(channel) == {g \in PendingGroupPots : games[g].channel_id = channel}

\* group_start lines 293-301: a registered user runs the command; an amount
\* <= 0 is refused, otherwise the task asks for the lock of the user's own
\* discord id.
GroupStartAcquire(t) ==
    \E u \in ChannelUsers, channel \in ChannelIds, amount \in ChannelAmounts :
        LET after == IF amount <= 0 THEN <<lockHolder, lockWaiters>>
                     ELSE AcquireLock(lockHolder, lockWaiters, t, DiscordId(u))
        IN  /\ pc[t] = "idle"
            /\ opCount < MaxStartOps
            /\ opCount' = opCount + 1
            /\ lockHolder' = after[1]
            /\ lockWaiters' = after[2]
            /\ locals' = [locals EXCEPT ![t] =
                             [user |-> u, channel |-> channel, amount |-> amount]]
            /\ pc' = [pc EXCEPT ![t] = IF amount <= 0 THEN "idle" ELSE "acquire"]
            /\ UNCHANGED <<users, transactions, games, participants, sess, clock>>

\* group_start lines 302-321, with the lock held: the session opens, the
\* creator is loaded and the channel is searched for a pending game.  When
\* one is found (or several: scalar_one_or_none raises) the command ends and
\* the lock is released.
GroupStartCheck(t) ==
    LET existing == PendingIn(locals[t].channel)
        released == IF existing # {}
                    THEN ReleaseLock(lockHolder, lockWaiters, DiscordId(locals[t].user))
                    ELSE <<lockHolder, lockWaiters>>
    IN  /\ pc[t] = "acquire"
        /\ HoldsLock(t, DiscordId(locals[t].user))
        /\ sess' = [sess EXCEPT ![t] =
                       IF existing # {} THEN EmptySession
                       ELSE Loaded(EmptySession, locals[t].user)]
        /\ lockHolder' = released[1]
        /\ lockWaiters' = released[2]
        /\ pc' = [pc EXCEPT ![t] = IF existing # {} THEN "idle" ELSE "create"]
        /\ UNCHANGED <<users, transactions, games, participants, locals, opCount, clock>>

\* group_start lines 323-344: the game and its first participant are
\* inserted and committed, the lock is released.
GroupStartCreate(t) ==
    LET released == ReleaseLock(lockHolder, lockWaiters, DiscordId(locals[t].user))
        g == NextGameId
    IN  /\ pc[t] = "create"
        /\ games' = (g :> GameRow("group_pot", "pending", locals[t].user,
                                  locals[t].channel, locals[t].amount)) @@ games
        /\ participants' = (g :> <<ParticipantRow(locals[t].user, locals[t].amount)>>)
                               @@ participants
        /\ sess' = [sess EXCEPT ![t] = EmptySession]
        /\ lockHolder' = released[1]
        /\ lockWaiters' = released[2]
        /\ pc' = [pc EXCEPT ![t] = "idle"]
        /\ UNCHANGED <<users, transactions, locals, opCount, clock>>

ChannelNext ==
    \/ \E t \in ChannelTasks : GroupStartAcquire(t)
    \/ \E t \in ChannelTasks : GroupStartCheck(t)
    \/ \E t \in ChannelTasks : GroupStartCreate(t)
    \/ \E g \in DOMAIN games : JoinButton(g)
    \/ \E u \in ChannelUsers, g \in DOMAIN games : GroupLeave(u, g)

SpecChannel == ChannelInit /\ [][ChannelNext]_vars

\* C38: at every moment every channel holds at most one pending group-pot
\* session, also when two different users run group_start in the same
\* channel at the same time.
C38_OnePendingPerChannel ==
    \A channel \in ChannelIds : Cardinality(PendingIn(channel)) <= 1

----------------------------------------------------------------------------
(* Claims about the sessions a user takes part in *)

\* C39: at every moment every user is a participant of at most one pending
\* or active session, whichever of the games created it or let the user
\* join, so get_active_game_for_user matches at most one session.
C39_OneSessionPerUser ==
    \A u \in DOMAIN users : Cardinality(get_active_game_for_user(u)) <= 1

----------------------------------------------------------------------------
(* Specification SpecTrack: the race loop of one animal race *)

RACE_TRACK_LENGTH == 100
max_updates == 50

TrackTask == "track"

\* config.RACE_RACERS in list order, and the speed range of each racer.
RacerOrder == <<"Turtle", "Hare", "Chicken", "Dino", "Kubica">>

RacerConfig ==
    [r \in RACE_RACERS |->
        IF r = "Turtle" THEN [min_speed |-> 1, max_speed |-> 4]
        ELSE IF r = "Hare" THEN [min_speed |-> 3, max_speed |-> 8]
        ELSE IF r = "Chicken" THEN [min_speed |-> 2, max_speed |-> 6]
        ELSE IF r = "Dino" THEN [min_speed |-> 2, max_speed |-> 7]
        ELSE [min_speed |-> 1, max_speed |-> 8]]

\* The draws of one update: the racers of the chosen set run at their
\* max_speed, the others at their min_speed.
FastSets == {{}, {"Hare"}, {"Kubica"}, {"Dino", "Chicken"}, {"Turtle"}, RACE_RACERS}

\* Racer.move for every racer (RaceTrack.update): the distance is a value of
\* random.randint(min_speed, max_speed).
update(position, fast) ==
    [r \in RACE_RACERS |->
        position[r] + (IF r \in fast THEN RacerConfig[r].max_speed
                       ELSE RacerConfig[r].min_speed)]

\* The loop of check_winner from the i-th racer on: a racer over the line
\* replaces the winner when there is none or when it is strictly further.
RECURSIVE CheckFrom(_, _, _)
CheckFrom(i, position, winner) ==
    IF i > Len(RacerOrder) THEN winner
    ELSE LET racer == RacerOrder[i]
         IN  CheckFrom(i + 1, position,
                       IF /\ position[racer] >= RACE_TRACK_LENGTH
                          /\ (winner = "none" \/ position[racer] > position[winner])
                       THEN racer ELSE winner)

\* A check_winner that keeps the first racer of the list that is over the line.
check_winner_keeps_first(position, winner) ==
    LET finished == {i \in 1..Len(RacerOrder) : position[RacerOrder[i]] >= RACE_TRACK_LENGTH}
    IN  IF winner # "none" \/ finished = {} THEN winner
        ELSE RacerOrder[MinOf(finished)]

\* RaceTrack.check_winner, given self.winner.
check_winner(position, winner) == CheckFrom(1, position, winner)

\* RaceTrack(): every racer at position 0, no winner; update_count = 0.
TrackInit ==
    /\ users = [u \in RacePlayers |-> PlayerRow(STARTING_BALANCE)]
    /\ transactions = [u \in RacePlayers |->
                          TxRow(u, STARTING_BALANCE, "initial_grant", NoGame)]
    /\ games = (RaceGame :> GameRow("animal_race", "active", 1, "channel", RACE_MIN_BET))
    /\ participants = (RaceGame :> <<ParticipantRow(1, RACE_MIN_BET)>>)
    /\ sess = (TrackTask :> EmptySession)
    /\ pc = (TrackTask :> "racing")
    /\ locals = (TrackTask :> [position |-> [r \in RACE_RACERS |-> 0],
                               winner |-> "none", update_count |-> 0])
    /\ lockHolder = Unlocked
    /\ lockWaiters = NoWaiters
    /\ opCount = 0
    /\ clock = Epoch

\* One pass of `while winner is None and update_count < max_updates`: every
\* racer moves, the winner is looked for, the count goes up; the loop is left
\* when its condition fails.
TrackUpdate ==
    \E fast \in FastSets :
        LET l == locals[TrackTask]
            position == update(l.position, fast)
            winner == check_winner(position, l.winner)
            update_count == l.update_count + 1
        IN  /\ pc[TrackTask] = "racing"
            /\ locals' = [locals EXCEPT ![TrackTask] =
                             [position |-> position, winner |-> winner,
                              update_count |-> update_count]]
            /\ pc' = [pc EXCEPT ![TrackTask] =
                         IF winner = "none" /\ update_count < max_updates
                         THEN "racing" ELSE "finished"]
            /\ UNCHANGED <<users, transactions, games, participants, sess,
                           lockHolder, lockWaiters, opCount, clock>>

SpecTrack == TrackInit /\ [][TrackUpdate]_vars

\* The racers over the line.
Finished == {r \in RACE_RACERS : locals[TrackTask].position[r] >= RACE_TRACK_LENGTH}

\* C40: when the race loop is left, a winner is declared and fewer than 50
\* updates were made; the winner is over the line (position >= 100) and no
\* racer over the line is strictly further than the winner.
C40_WinnerBeforeLimit ==
    pc[TrackTask] = "finished" =>
        LET l == locals[TrackTask]
        IN  /\ l.winner # "none"
            /\ l.update_count < max_updates
            /\ l.winner \in Finished
            /\ \A r \in Finished : l.position[r] <= l.position[l.winner]

\* The loop was left with a winner that passed a racer which is earlier in
\* the list and over the line too.
C40_Witness ==
    /\ pc[TrackTask] = "finished"
    /\ locals[TrackTask].winner = "Kubica"
    /\ "Hare" \in Finished
    /\ locals[TrackTask].position["Hare"] < locals[TrackTask].position["Kubica"]

====
